---- MODULE Spec2Model ----
(***************************************************************************)
(* Model of the ue3-config-parser pipeline:                                *)
(*   source text -> Directives::from_text -> Directives::validate          *)
(* (src/ue3-config-parser/src/parse.rs, src/ue3-config-parser/src/check.rs *)
(* and src/ue3-config-parser/src/check/struct_syntax.rs).                  *)
(*                                                                         *)
(* A text is a sequence of one-character strings (its bytes; every byte of *)
(* the model alphabet is ASCII, so byte offsets and char offsets agree).   *)
(* Offsets are 0-based as in the source; Span(a, b) is the tuple <<a, b>>. *)
(***************************************************************************)
EXTENDS Integers, Sequences, FiniteSets, TLC

VARIABLES
    text,             \* the input buffer handed to from_text
    overflow_checks,  \* build profile: TRUE = usize arithmetic panics on overflow
                      \* (dev/test profile), FALSE = it wraps (release profile)
    pc,               \* "input" | "parsed" | "parse_panicked" | "validated" |
                      \* "validate_panicked"
    directives,       \* Directives.directives once pc = "parsed"
    errs,             \* the Vec<ReportedError> returned by validate
    tokens,           \* the tokens a struct_syntax::Lexer yields over `text`
    result            \* the Result struct_syntax::parse returns for `text`

vars == <<text, overflow_checks, pc, directives, errs, tokens, result>>

----------------------------------------------------------------------------
(* Bounds of the checked input space. *)

\* longest text over LineAlphabet (one byte shorter when it holds a sigil)
MaxLen == 6

\* longest text over HeaderAlphabet
MaxHeaderLen == 4

\* longest value over ValueAlphabet
MaxValueLen == 5

\* longest line over UnknownAlphabet
MaxUnknownLen == 3

\* deepest nesting of a struct inside the members of a generated struct value
MaxDepth == 1

\* longest text between the quotes of a generated quoted literal
MaxQuotedLen == 3

\* longest identifier over KeyAlphabet
MaxKeyLen == 3

\* most digits of a generated index suffix
MaxIndexLen == 2

\* longest text between the brackets of a generated section header
MaxObjectLen == 5

\* longest text over TerminatorAlphabet
MaxLinesLen == 5

\* longest text put after the closing parenthesis of a struct value
MaxTailLen == 3

----------------------------------------------------------------------------
(* Bytes and slices. *)

\* Option::None for a byte (as_bytes().get(i) out of range)
NoByte == "None"

\* Option::None for an Option<Span>
NoSpan == <<>>

\* b' ' | b'\t'
Blank == {" ", "\t"}

\* '\r' | '\n'
Eol == {"\r", "\n"}

\* text.as_bytes().get(i); i < 0 stands for an index that wrapped around to a
\* value near usize::MAX, which is out of range for every text
Byte(t, i) == IF i >= 0 /\ i < Len(t) THEN t[i + 1] ELSE NoByte

\* &text[span] is defined (does not panic) iff start <= end <= len
SliceOk(t, sp) == sp[1] <= sp[2] /\ sp[2] <= Len(t) /\ sp[1] >= 0

\* &text[span.0..span.1]
Slice(t, sp) == SubSeq(t, sp[1] + 1, sp[2])

\* length of s without its trailing blanks
RECURSIVE RunEndBack(_, _)
RunEndBack(s, e) == IF e >= 1 /\ s[e] \in Blank THEN RunEndBack(s, e - 1) ELSE e

\* faulty variant: blanks after the two backslashes are tolerated
EndsWithBackslashes_Trimmed(s) ==
    LET e == RunEndBack(s, Len(s)) IN
    e >= 2 /\ s[e] = "\\" /\ s[e - 1] = "\\"

\* str::ends_with(r"\\"): the last two bytes are both a backslash
EndsWithBackslashes(s) ==
    Len(s) >= 2 /\ s[Len(s)] = "\\" /\ s[Len(s) - 1] = "\\"

\* str::find(ch): offset of the first occurrence, or -1 for None
RECURSIVE FindFrom(_, _, _)
FindFrom(s, chars, i) ==
    IF i >= Len(s) THEN -1
    ELSE IF s[i + 1] \in chars THEN i
    ELSE FindFrom(s, chars, i + 1)

Find(s, chars) == FindFrom(s, chars, 0)

----------------------------------------------------------------------------
(* parse.rs: KvpOperation *)

\* faulty variant: the default arm yields Insert instead of Set
KvpOperation_from_DefaultInsert(b) ==
    CASE b = "+" -> "InsertUnique"
      [] b = "-" -> "Remove"
      [] b = "!" -> "Clear"
      [] OTHER   -> "Insert"

KvpOperation_from(b) ==
    CASE b = "+" -> "InsertUnique"
      [] b = "." -> "Insert"
      [] b = "-" -> "Remove"
      [] b = "!" -> "Clear"
      [] OTHER   -> "Set"

----------------------------------------------------------------------------
(* parse.rs: the line splitter of from_text *)

\* faulty variant: one terminator is skipped, not the whole run
SkipTerminators_One(t, offset) ==
    IF Byte(t, offset) \in Eol THEN offset + 1 ELSE offset

\* while remaining.starts_with('\r' | '\n') { offset += 1 }
RECURSIVE SkipTerminators(_, _)
SkipTerminators(t, offset) ==
    IF Byte(t, offset) \in Eol THEN SkipTerminators(t, offset + 1) ELSE offset

RECURSIVE split_lines_from(_, _, _)
split_lines_from(t, offset, lines) ==
    IF offset >= Len(t) THEN lines
    ELSE LET p == Find(SubSeq(t, offset + 1, Len(t)), Eol) IN
         IF p >= 0
         THEN split_lines_from(t, SkipTerminators(t, offset + p),
                               Append(lines, <<offset, offset + p>>))
         ELSE Append(lines, <<offset, Len(t)>>)

split_lines(t) == split_lines_from(t, 0, <<>>)

----------------------------------------------------------------------------
(* parse.rs: the directive recognizer of from_text *)

\* while let Some(b' ' | b'\t') = text.as_bytes().get(trim_span.0) { trim_span.0 += 1 }
RECURSIVE TrimStart(_, _)
TrimStart(t, i) == IF Byte(t, i) \in Blank THEN TrimStart(t, i + 1) ELSE i

\* faulty variant: the brackets are looked for after dropping surrounding blanks
IsHeaderLine_Trimmed(line) ==
    LET b == TrimStart(line, 0)
        e == RunEndBack(line, Len(line))
    IN e - b >= 1 /\ line[b + 1] = "[" /\ line[e] = "]"

\* raw first byte '[' and raw last byte ']'
IsHeaderLine(line) ==
    Len(line) >= 1 /\ line[1] = "[" /\ line[Len(line)] = "]"

\* while let Some(b' ' | b'\t') = text.as_bytes().get(prop_span.1 - 1) { prop_span.1 -= 1 }
\* `prop_span.1 - 1` with prop_span.1 = 0 overflows usize: a panic with overflow
\* checks, otherwise an out-of-range index that ends the loop.  Result: the new
\* prop_span.1, or -1 for the panic.
RECURSIVE TrimPropEnd(_, _, _)
TrimPropEnd(t, e, checks) ==
    IF e = 0 THEN (IF checks THEN -1 ELSE 0)
    ELSE IF Byte(t, e - 1) \in Blank THEN TrimPropEnd(t, e - 1, checks)
    ELSE e

\* faulty variant: the loop stops in front of a line that looks like a section
\* header or a key-value pair
RECURSIVE AbsorbContinuations_OnlyPlain(_, _, _, _)
AbsorbContinuations_OnlyPlain(t, lines, l_index, test_line) ==
    IF /\ EndsWithBackslashes(test_line) /\ l_index < Len(lines) - 1
       /\ ~IsHeaderLine(Slice(t, lines[l_index + 2]))
       /\ Find(Slice(t, lines[l_index + 2]), {"="}) < 0
    THEN AbsorbContinuations_OnlyPlain(t, lines, l_index + 1, Slice(t, lines[l_index + 2]))
    ELSE l_index

\* while test_line.ends_with(r"\\") && l_index < lines.len() - 1 { l_index += 1; ... }
\* Result: l_index after the loop (the index of the last absorbed line).
RECURSIVE AbsorbContinuations(_, _, _, _)
AbsorbContinuations(t, lines, l_index, test_line) ==
    IF EndsWithBackslashes(test_line) /\ l_index < Len(lines) - 1
    THEN AbsorbContinuations(t, lines, l_index + 1, Slice(t, lines[l_index + 2]))
    ELSE l_index

\* all(|c| matches!(c, b'\r' | b'\n' | b'\t' | b' '))
AllWhitespace(line) == \A i \in 1..Len(line) : line[i] \in Blank \cup Eol

\* One iteration of `while l_index < lines.len()`: the directive (if any) that
\* line l_index yields and the l_index of the last line it consumed.
\* panic = TRUE when the iteration aborts.
RecognizeLine(t, lines, l_index, checks) ==
    LET span == lines[l_index + 1]
        line == Slice(t, span)
    IN
    IF IsHeaderLine(line)
    THEN [panic |-> FALSE, last |-> l_index,
          out |-> <<[kind |-> "SectionHeader", span |-> span,
                     obj_name |-> <<span[1] + 1, span[2] - 1>>]>>]
    ELSE
      LET trim_span == <<TrimStart(t, span[1]), span[2]>> IN
      IF ~SliceOk(t, trim_span)
      THEN [panic |-> TRUE, last |-> l_index, out |-> <<>>]
      ELSE
        LET trim_line == Slice(t, trim_span)
            p == Find(trim_line, {"="})
        IN
        IF p >= 0
        THEN
          LET prop_end == TrimPropEnd(t, trim_span[1] + p, checks)
              op == KvpOperation_from(trim_line[1])
              last == AbsorbContinuations(t, lines, l_index, trim_line)
              value_span == <<trim_span[1] + p + 1,
                              IF last = l_index THEN trim_span[2] ELSE lines[last + 1][2]>>
              prop_span == <<IF op # "Set" THEN trim_span[1] + 1 ELSE trim_span[1], prop_end>>
          IN
          IF prop_end < 0
          THEN [panic |-> TRUE, last |-> l_index, out |-> <<>>]
          ELSE [panic |-> FALSE, last |-> last,
                out |-> <<[kind |-> "Kvp", ident |-> prop_span, op |-> op,
                           span |-> <<prop_span[1], value_span[2]>>,
                           value |-> value_span]>>]
        ELSE IF ~AllWhitespace(line)
        THEN [panic |-> FALSE, last |-> l_index,
              out |-> <<[kind |-> "Unknown", span |-> span,
                         prev_span |-> IF l_index >= 1 THEN lines[l_index] ELSE NoSpan]>>]
        ELSE [panic |-> FALSE, last |-> l_index, out |-> <<>>]

\* faulty variant: the outer loop resumes right after the first line of the directive
NextLineIndex_NoSkip(l_index, last) == l_index + 1

\* `l_index += 1` at the end of an iteration that started at l_index and whose
\* continuation loop left l_index at `last`
NextLineIndex(l_index, last) == last + 1

RECURSIVE parse_directives(_, _, _, _, _)
parse_directives(t, lines, l_index, acc, checks) ==
    IF l_index >= Len(lines) THEN [panic |-> FALSE, directives |-> acc]
    ELSE LET r == RecognizeLine(t, lines, l_index, checks) IN
         IF r.panic THEN [panic |-> TRUE, directives |-> acc]
         ELSE parse_directives(t, lines, NextLineIndex(l_index, r.last),
                               acc \o r.out, checks)

\* Directives::from_text
from_text(t, checks) == parse_directives(t, split_lines(t), 0, <<>>, checks)

----------------------------------------------------------------------------
(* check.rs: character classes and the three regexes *)

UpperSeq == <<"A","B","C","D","E","F","G","H","I","J","K","L","M",
              "N","O","P","Q","R","S","T","U","V","W","X","Y","Z">>

LowerSeq == <<"a","b","c","d","e","f","g","h","i","j","k","l","m",
              "n","o","p","q","r","s","t","u","v","w","x","y","z">>

DigitSeq == <<"0","1","2","3","4","5","6","7","8","9">>

Upper == {UpperSeq[i] : i \in 1..Len(UpperSeq)}

Lower == {LowerSeq[i] : i \in 1..Len(LowerSeq)}

\* [A-Za-z]
Letter == Upper \cup Lower

\* [0-9]
Digit == {DigitSeq[i] : i \in 1..Len(DigitSeq)}

\* [A-Za-z0-9_]
WordChar == Letter \cup Digit \cup {"_"}

\* char::is_whitespace restricted to ASCII bytes the model can hold
\* (str::trim, str::trim_end)
Whitespace == Blank \cup Eol

\* length of the longest prefix of s, from offset i, made of bytes in chars
RECURSIVE RunEnd(_, _, _)
RunEnd(s, chars, i) ==
    IF i < Len(s) /\ s[i + 1] \in chars THEN RunEnd(s, chars, i + 1) ELSE i

\* (0|[1-9][0-9]*) matches the whole of s
IsIndexNumber(s) ==
    /\ Len(s) >= 1
    /\ \A i \in 1..Len(s) : s[i] \in Digit
    /\ (s[1] = "0" => Len(s) = 1)

\* IDENT: ^[A-Za-z][A-Za-z0-9_]*$
IDENT_is_match(s) ==
    /\ Len(s) >= 1
    /\ s[1] \in Letter
    /\ \A i \in 2..Len(s) : s[i] \in WordChar

\* faulty variant: the index may be any run of digits
KEY_is_match_ZeroPadded(s) ==
    /\ Len(s) >= 1
    /\ s[1] \in Letter
    /\ LET e == RunEnd(s, WordChar, 1)
           rest == SubSeq(s, e + 1, Len(s))
           n == Len(rest)
       IN \/ n = 0
          \/ /\ n >= 3
             /\ \/ rest[1] = "[" /\ rest[n] = "]"
                \/ rest[1] = "(" /\ rest[n] = ")"
             /\ \A i \in 2..(n - 1) : rest[i] \in Digit

\* KEY: ^[A-Za-z][A-Za-z0-9_]*(\[(0|[1-9][0-9]*)\]|\((0|[1-9][0-9]*)\))?$
\* The suffix starts with a byte outside [A-Za-z0-9_], so the name part is the
\* maximal run of word bytes.
KEY_is_match(s) ==
    /\ Len(s) >= 1
    /\ s[1] \in Letter
    /\ LET e == RunEnd(s, WordChar, 1)
           rest == SubSeq(s, e + 1, Len(s))
           n == Len(rest)
       IN \/ n = 0
          \/ /\ n >= 3
             /\ \/ rest[1] = "[" /\ rest[n] = "]"
                \/ rest[1] = "(" /\ rest[n] = ")"
             /\ IsIndexNumber(SubSeq(rest, 2, n - 1))

\* faulty variant: blanks before the name are skipped before it is matched
OBJECT_is_match_Trimmed(s) ==
    LET t == SubSeq(s, TrimStart(s, 0) + 1, Len(s)) IN
    /\ Len(t) >= 1
    /\ t[1] \in Letter
    /\ LET e == RunEnd(t, WordChar, 1)
           rest == SubSeq(t, e + 1, Len(t))
       IN \/ Len(rest) = 0
          \/ /\ rest[1] \in {" ", "."}
             /\ IDENT_is_match(Tail(rest))

\* OBJECT: ^[A-Za-z][A-Za-z0-9_]*([ \.][A-Za-z][A-Za-z0-9_]*)?$
OBJECT_is_match(s) ==
    /\ Len(s) >= 1
    /\ s[1] \in Letter
    /\ LET e == RunEnd(s, WordChar, 1)
           rest == SubSeq(s, e + 1, Len(s))
       IN \/ Len(rest) = 0
          \/ /\ rest[1] \in {" ", "."}
             /\ IDENT_is_match(Tail(rest))

\* str::trim_end
RECURSIVE TrimEnd(_)
TrimEnd(s) ==
    IF Len(s) > 0 /\ s[Len(s)] \in Whitespace THEN TrimEnd(SubSeq(s, 1, Len(s) - 1)) ELSE s

\* str::trim
Trim(s) == LET e == TrimEnd(s) IN SubSeq(e, RunEnd(e, Whitespace, 0) + 1, Len(e))

\* str::starts_with
StartsWith(s, prefix) ==
    Len(s) >= Len(prefix) /\ SubSeq(s, 1, Len(prefix)) = prefix

\* str::rfind(r"\\"): offset of the last occurrence of two backslashes, or -1
RECURSIVE RFindBackslashesFrom(_, _)
RFindBackslashesFrom(s, i) ==
    IF i < 0 THEN -1
    ELSE IF s[i + 1] = "\\" /\ s[i + 2] = "\\" THEN i
    ELSE RFindBackslashesFrom(s, i - 1)

RFindBackslashes(s) == RFindBackslashesFrom(s, Len(s) - 2)

----------------------------------------------------------------------------
(* check.rs: diagnostics *)

\* ReportedError { kind, span }
ReportedError(kind, span) == [kind |-> kind, span |-> span]

\* ReportedError { kind: ErrorKind::Custom(msg), span }
CustomError(msg, span) == [kind |-> "Custom", msg |-> msg, span |-> span]

\* DiagResult::Ok, DiagResult::None, DiagResult::Err(list); tag "Panic" stands
\* for a call that does not return
DiagOk == [tag |-> "Ok", errs |-> <<>>]
DiagNone == [tag |-> "None", errs |-> <<>>]
DiagErr(list) == [tag |-> "Err", errs |-> list]
DiagPanic == [tag |-> "Panic", errs |-> <<>>]

\* faulty variant: the line is not trimmed before the markers are looked for
try_report_comment_NoTrim(s, span) ==
    IF StartsWith(s, <<";">>) THEN DiagOk
    ELSE IF StartsWith(s, <<"/", "/">>)
    THEN DiagErr(<<ReportedError("SlashSlashComent", span)>>)
    ELSE DiagNone

try_report_comment(s, span) ==
    LET trimmed_line == Trim(s) IN
    IF StartsWith(trimmed_line, <<";">>) THEN DiagOk
    ELSE IF StartsWith(trimmed_line, <<"/", "/">>)
    THEN DiagErr(<<ReportedError("SlashSlashComent", span)>>)
    ELSE DiagNone

\* faulty variant: a trailing ;-comment is not cut off before the bracket test
try_report_section_error_KeepComment(line, span) ==
    LET trimmed_line == Trim(line) IN
    IF Len(trimmed_line) >= 1 /\ trimmed_line[1] = "["
       /\ trimmed_line[Len(trimmed_line)] = "]"
    THEN DiagErr(<<ReportedError("MalformedHeader", span)>>)
    ELSE DiagNone

try_report_section_error(line, span) ==
    LET pos == Find(line, {";"})
        trimmed_line == IF pos >= 0 THEN Trim(SubSeq(line, 1, pos)) ELSE Trim(line)
    IN
    IF Len(trimmed_line) >= 1 /\ trimmed_line[1] = "["
       /\ trimmed_line[Len(trimmed_line)] = "]"
    THEN DiagErr(<<ReportedError("MalformedHeader", span)>>)
    ELSE DiagNone

----------------------------------------------------------------------------
(* check.rs: matches_bool, matches_num, matches_ident *)

\* u8::to_ascii_lowercase
ToLower(c) ==
    IF c \in Upper THEN LowerSeq[CHOOSE i \in 1..Len(UpperSeq) : UpperSeq[i] = c] ELSE c

\* str::to_ascii_lowercase
ToAsciiLowercase(s) == [i \in 1..Len(s) |-> ToLower(s[i])]

matches_bool(s) ==
    ToAsciiLowercase(s) \in {<<"t","r","u","e">>, <<"f","a","l","s","e">>}

DigitValue(c) == (CHOOSE i \in 1..Len(DigitSeq) : DigitSeq[i] = c) - 1

AllDigits(s) == \A i \in 1..Len(s) : s[i] \in Digit

\* s without its leading zeros (the decimal numeral of the value of s)
StripZeros(s) == SubSeq(s, RunEnd(s, {"0"}, 0) + 1, Len(s))

\* a <= b for two decimal numerals without leading zeros (numbers past 2^31
\* are compared as numerals)
RECURSIVE NumeralLeq(_, _)
NumeralLeq(a, b) ==
    IF Len(a) # Len(b) THEN Len(a) < Len(b)
    ELSE IF Len(a) = 0 THEN TRUE
    ELSE IF a[1] # b[1] THEN DigitValue(a[1]) < DigitValue(b[1])
    ELSE NumeralLeq(Tail(a), Tail(b))

\* u32::MAX = 4294967295
U32MaxNumeral == <<"4","2","9","4","9","6","7","2","9","5">>

\* i32::MAX = 2147483647
I32MaxNumeral == <<"2","1","4","7","4","8","3","6","4","7">>

\* -i32::MIN = 2147483648
I32MinNumeral == <<"2","1","4","7","4","8","3","6","4","8">>

\* faulty variant: the value must fit i32
ParsesU32_I32Range(s) ==
    LET digs == IF Len(s) >= 1 /\ s[1] = "+" THEN Tail(s) ELSE s IN
    /\ Len(digs) >= 1
    /\ AllDigits(digs)
    /\ NumeralLeq(StripZeros(digs), <<"2","1","4","7","4","8","3","6","4","7">>)

\* str::parse::<u32>().is_ok(): an optional '+', then one or more digits whose
\* value fits u32
ParsesU32(s) ==
    LET digs == IF Len(s) >= 1 /\ s[1] = "+" THEN Tail(s) ELSE s IN
    /\ Len(digs) >= 1
    /\ AllDigits(digs)
    /\ NumeralLeq(StripZeros(digs), U32MaxNumeral)

\* str::parse::<i32>().is_ok(): an optional sign, then one or more digits whose
\* value fits i32
ParsesI32(s) ==
    LET signed == Len(s) >= 1 /\ s[1] \in {"+", "-"}
        digs == IF signed THEN Tail(s) ELSE s
    IN
    /\ Len(digs) >= 1
    /\ AllDigits(digs)
    /\ NumeralLeq(StripZeros(digs),
                  IF signed /\ s[1] = "-" THEN I32MinNumeral ELSE I32MaxNumeral)

\* str::parse::<f32>().is_ok(): Sign? ('inf' | 'infinity' | 'nan' | Number) with
\* Number ::= (Digit+ | Digit+ '.' Digit* | Digit* '.' Digit+) ([eE] Sign? Digit+)?
\* (out-of-range magnitudes round to infinity or zero, they are no error)
ParsesF32(s) ==
    LET body == IF Len(s) >= 1 /\ s[1] \in {"+", "-"} THEN Tail(s) ELSE s
        i1 == RunEnd(body, Digit, 0)
        dot == i1 < Len(body) /\ body[i1 + 1] = "."
        i2 == IF dot THEN RunEnd(body, Digit, i1 + 1) ELSE i1
        mantissa == i1 + (i2 - i1 - (IF dot THEN 1 ELSE 0))
        exp == i2 < Len(body) /\ body[i2 + 1] \in {"e", "E"}
        i3 == IF exp /\ i2 + 1 < Len(body) /\ body[i2 + 2] \in {"+", "-"}
              THEN i2 + 2 ELSE i2 + 1
        i4 == IF exp THEN RunEnd(body, Digit, i3) ELSE i2
    IN
    \/ ToAsciiLowercase(body) \in {<<"i","n","f">>, <<"n","a","n">>,
                                   <<"i","n","f","i","n","i","t","y">>}
    \/ /\ mantissa >= 1
       /\ exp => i4 > i3
       /\ i4 = Len(body)

matches_num(s) == ParsesI32(s) \/ ParsesF32(s)

matches_ident(s) == IDENT_is_match(s)

----------------------------------------------------------------------------
(* struct_syntax.rs: the value lexer *)

\* the bytes that end a Text or Quoted token in continue_string
StringEnd == {"(", ")", "[", "]", ",", "=", "\"", ";"}

\* fn is_whitespace
is_whitespace(c) == c \in {"\t", " "}

\* Lexer::continue_string: the end offset of the token whose first byte has
\* been consumed; i is the offset of the next byte the iterator will yield
RECURSIVE continue_string(_, _, _)
continue_string(s, i, quoted) ==
    IF i >= Len(s) THEN Len(s)
    ELSE IF quoted /\ s[i + 1] = "\"" THEN i + 1
    ELSE IF s[i + 1] \in StringEnd THEN i
    ELSE continue_string(s, i + 1, quoted)

\* the Token variant chosen by the match in Lexer::next
TokenKind(c) ==
    CASE c = "(" -> "LParen"
      [] c = ")" -> "RParen"
      [] c = "[" -> "LBrack"
      [] c = "]" -> "RBrack"
      [] c = "," -> "Comma"
      [] c = "=" -> "Eq"
      [] c = ";" -> "Semi"
      [] c = "\"" -> "Quoted"
      [] OTHER -> "Text"

\* skip whitespace from offset i: the offset of the first byte of the next token
RECURSIVE SkipWhitespace(_, _)
SkipWhitespace(s, i) ==
    IF i < Len(s) /\ is_whitespace(s[i + 1]) THEN SkipWhitespace(s, i + 1) ELSE i

\* Lexer::next repeated until None: every token with the span it was read from
\* (start is the value last_pos has once the token is returned)
RECURSIVE LexFrom(_, _, _)
LexFrom(s, i, acc) ==
    LET j == SkipWhitespace(s, i) IN
    IF j >= Len(s) THEN acc
    ELSE LET kind == TokenKind(s[j + 1])
             e == IF kind \in {"Text", "Quoted"}
                  THEN continue_string(s, j + 1, kind = "Quoted")
                  ELSE j + 1
         IN LexFrom(s, e, Append(acc, [kind |-> kind, start |-> j, end |-> e]))

Lexer_collect(s) == LexFrom(s, 0, <<>>)

----------------------------------------------------------------------------
(* struct_syntax.rs: Parser over the token stream *)

\* The parser's view of a text: its tokens (lexed on demand in the source, in
\* the same order) and its length.
ParserInput(s) == [toks |-> Lexer_collect(s), len |-> Len(s), text |-> s]

\* Parser state: i tokens consumed through next(), `lexed` calls of Lexer::next
\* made so far (a peek lexes one token ahead).
ParserNew == [i |-> 0, lexed |-> 0]

\* the k-th result of Lexer::next (1-based); None at and after the end of input,
\* where last_pos is text.len()
TokAt(in, k) ==
    IF k <= Len(in.toks) THEN in.toks[k]
    ELSE [kind |-> "None", start |-> in.len, end |-> in.len]

Max(a, b) == IF a >= b THEN a ELSE b

\* Parser::peek: the token it returns, and the state it leaves
Peek(in, st) == TokAt(in, st.i + 1)

AfterPeek(st) == [st EXCEPT !.lexed = Max(st.lexed, st.i + 1)]

\* Parser::next: the token it returns, and the state it leaves
AfterNext(st) == [i |-> st.i + 1, lexed |-> Max(st.lexed, st.i + 1)]

\* faulty variant: the end of the token lexed last
Pos_TokenEnd(in, st) == IF st.lexed = 0 THEN 0 ELSE TokAt(in, st.lexed).end

\* Parser::pos: lexer.last_pos, the start of the token lexed last
Pos(in, st) == IF st.lexed = 0 THEN 0 ELSE TokAt(in, st.lexed).start

\* the text of a Text or Quoted token
TokText(in, tok) == SubSeq(in.text, tok.start + 1, tok.end)

\* Results of the parse functions (in the messages the backquote of the source
\* is written as an apostrophe): Ok(value), Err(ParseError { pos, msg }), or a
\* panic (unreachable!()).
POk(st, val) == [res |-> "Ok", st |-> st, val |-> val]
PErr(in, st, msg) == [res |-> "Err", pos |-> Pos(in, st), msg |-> msg]
PPanic == [res |-> "Panic"]

\* PropValue
Terminal(in, tok) == [node |-> "Terminal", s |-> TokText(in, tok)]
StructNode(children) == [node |-> "Struct", children |-> children]
ArrayNode(elems) == [node |-> "Array", elems |-> elems]
EmptyNode == [node |-> "Empty"]

\* Option<u32> of PropName: None
NoIdx == <<>>

\* The `idx` match of parse_struct: [res, st, idx] after the optional `[n]`.
\* A parsed index is kept as its numeral without sign and leading zeros.
ParseIndex(in, st) ==
    IF Peek(in, st).kind # "LBrack" THEN POk(AfterPeek(st), NoIdx)
    ELSE LET st1 == AfterNext(AfterPeek(st))
             t == Peek(in, st1)
             st2 == AfterNext(st1)
             r == Peek(in, st2)
             st3 == AfterNext(st2)
         IN
         IF t.kind # "Text" THEN PErr(in, st2, "Expected array index")
         ELSE IF ~ParsesU32(TokText(in, t)) THEN PErr(in, st2, "Expected array index")
         ELSE IF r.kind # "RBrack" THEN PErr(in, st3, "Expected ']'")
         ELSE LET digs == TokText(in, t)
                  num == StripZeros(IF digs[1] = "+" THEN Tail(digs) ELSE digs)
              IN POk(st3, IF num = <<>> THEN <<"0">> ELSE num)

RECURSIVE parse_struct_loop(_, _, _, _)
RECURSIVE parse_array_loop(_, _, _, _)
RECURSIVE parse_struct_or_array(_, _)

\* parse_struct(parser, ex_token)
parse_struct(in, st, ex_token) == parse_struct_loop(in, st, ex_token, <<>>)

\* `let val = match parser.next() { .. }` of parse_struct
StructValue(in, st) ==
    LET v == Peek(in, st)
        st2 == AfterNext(st)
    IN
    IF v.kind \in {"Text", "Quoted"} THEN POk(st2, Terminal(in, v))
    ELSE IF v.kind = "LParen" THEN parse_struct_or_array(in, st2)
    ELSE PErr(in, st2, "Expected '(' or value")

\* the end of an iteration of parse_struct: the separator match after the
\* child has been pushed
StructAfterChild(in, st, kids) ==
    LET sep == Peek(in, st)
        st3 == AfterNext(st)
        nx == Peek(in, st3)
        st4 == AfterNext(st3)
    IN
    IF sep.kind = "RParen" THEN POk(st3, StructNode(kids))
    ELSE IF sep.kind # "Comma" THEN PErr(in, st3, "Expected ',' or ')'")
    ELSE IF nx.kind = "RParen" THEN POk(st4, StructNode(kids))
    ELSE IF nx.kind = "Text" THEN parse_struct_loop(in, st4, nx, kids)
    ELSE PErr(in, st4, "Expected ')' or name")

\* faulty variant: the child is put in front of the children collected so far
StructAfterValue_PushFront(in, visit_token, children, idx, val) ==
    IF val.res # "Ok" THEN val
    ELSE StructAfterChild(in, val.st,
             <<[name |-> TokText(in, visit_token), idx |-> idx, val |-> val.val]>>
                 \o children)

\* parse_struct once `val` has been computed: `?` on it, children.push
StructAfterValue(in, visit_token, children, idx, val) ==
    IF val.res # "Ok" THEN val
    ELSE StructAfterChild(in, val.st,
             Append(children,
                    [name |-> TokText(in, visit_token), idx |-> idx, val |-> val.val]))

\* parse_struct once `idx` has been computed: `?` on it, then the `=` match
StructAfterIndex(in, visit_token, children, ix) ==
    IF ix.res # "Ok" THEN ix
    ELSE IF Peek(in, ix.st).kind # "Eq" THEN PErr(in, AfterNext(ix.st), "Expected '='")
    ELSE StructAfterValue(in, visit_token, children, ix.val,
                          StructValue(in, AfterNext(ix.st)))

\* one iteration of the `loop` of parse_struct, with visit_token and the
\* children collected so far
parse_struct_loop(in, st, visit_token, children) ==
    IF visit_token.kind # "Text" THEN PPanic
    ELSE StructAfterIndex(in, visit_token, children, ParseIndex(in, st))

\* the element pushed for a token that opens an array element: a terminal, or
\* the struct parse_struct(parser, ex_token) returns
ArrayElement(in, st, tok, ex_token) ==
    IF tok.kind \in {"Text", "Quoted"} THEN POk(st, Terminal(in, tok))
    ELSE parse_struct(in, st, ex_token)

\* parse_array once an element has been computed: `?` on it, elems.push
ArrayAfterElement(in, ex_token, elems, el) ==
    IF el.res # "Ok" THEN el
    ELSE parse_array_loop(in, el.st, ex_token, Append(elems, el.val))

\* parse_array(parser, ex_token)
parse_array(in, st, ex_token) ==
    IF ex_token.kind \notin {"Text", "Quoted", "LParen"} THEN PPanic
    ELSE ArrayAfterElement(in, ex_token, <<>>, ArrayElement(in, st, ex_token, ex_token))

\* one iteration of the `loop` of parse_array
parse_array_loop(in, st, ex_token, elems) ==
    LET pk == Peek(in, st)
        st1 == AfterNext(AfterPeek(st))
        nx == Peek(in, st1)
        st2 == AfterNext(st1)
    IN
    IF pk.kind = "RParen" THEN POk(st1, ArrayNode(elems))
    ELSE IF pk.kind # "Comma" THEN PErr(in, AfterPeek(st), "expected ',' or '('")
    ELSE IF nx.kind = "RParen" THEN POk(st2, ArrayNode(elems))
    ELSE IF nx.kind \in {"Text", "Quoted", "LParen"}
    THEN ArrayAfterElement(in, ex_token, elems, ArrayElement(in, st2, nx, ex_token))
    ELSE PErr(in, st2, "expected value")

\* parse_struct_or_array(parser)
parse_struct_or_array(in, st) ==
    LET prop_token == Peek(in, st)
        st1 == AfterNext(st)
        pk == Peek(in, st1)
        st2 == AfterPeek(st1)
    IN
    IF prop_token.kind = "RParen" THEN POk(st1, EmptyNode)
    ELSE IF prop_token.kind = "None"
    THEN PErr(in, st1, "Expected name, value, or ')'")
    ELSE IF prop_token.kind = "Text" /\ pk.kind \in {"Eq", "LBrack"}
    THEN parse_struct(in, st2, prop_token)
    ELSE IF prop_token.kind \in {"Text", "Quoted"} /\ pk.kind \in {"Comma", "RParen"}
    THEN parse_array(in, st2, prop_token)
    ELSE IF prop_token.kind = "LParen" /\ pk.kind \in {"Text", "RParen"}
    THEN parse_array(in, st2, prop_token)
    ELSE PErr(in, st2, "Expected key-value pair or array value'")

\* faulty variant: a token after the closing parenthesis is an error
ParseTop_WholeText(in) ==
    LET tok == Peek(in, ParserNew)
        st1 == AfterNext(ParserNew)
        t == Peek(in, st1)
        st2 == AfterNext(st1)
    IN
    IF tok.kind # "LParen" THEN PErr(in, st1, "Expected '('")
    ELSE IF t.kind # "Text" THEN PErr(in, st2, "Expected property name")
    ELSE LET r == parse_struct(in, st2, t) IN
         IF r.res = "Ok" /\ Peek(in, r.st).kind # "None"
         THEN PErr(in, AfterNext(r.st), "Expected end of input")
         ELSE r

\* the body of struct_syntax::parse over the tokens of its text
ParseTop(in) ==
    LET tok == Peek(in, ParserNew)
        st1 == AfterNext(ParserNew)
        t == Peek(in, st1)
        st2 == AfterNext(st1)
    IN
    IF tok.kind # "LParen" THEN PErr(in, st1, "Expected '('")
    ELSE IF t.kind # "Text" THEN PErr(in, st2, "Expected property name")
    ELSE parse_struct(in, st2, t)

\* struct_syntax::parse: the parser is built once over the text
parse(s) == CHOOSE r \in {ParseTop(in) : in \in {ParserInput(s)}} : TRUE

----------------------------------------------------------------------------
(* check.rs: validate_property_text *)

\* while let Some(b' ' | b'\t') = text.as_bytes().get(part_span.1 - 1) { part_span.1 -= 1 }
\* Result: the new part_span.1, or -1 when `part_span.1 - 1` panics on overflow.
RECURSIVE TrimValueEnd(_, _, _)
TrimValueEnd(s, e, checks) ==
    IF e = 0 THEN (IF checks THEN -1 ELSE 0)
    ELSE IF Byte(s, e - 1) \in Blank THEN TrimValueEnd(s, e - 1, checks)
    ELSE e

\* n spaces
Spaces(n) == [i \in 1..n |-> " "]

\* faulty variant: the two backslashes are copied into `reduced`
RECURSIVE ReduceLoop_KeepBackslashes(_, _, _, _, _)
ReduceLoop_KeepBackslashes(s, p0, p1, reduced, checks) ==
    IF ~SliceOk(s, <<p0, p1>>) THEN [panic |-> TRUE, reduced |-> reduced]
    ELSE
    LET eol == Find(Slice(s, <<p0, p1>>), Eol)
        lo == p0 + eol - 2
    IN
    IF eol < 0 THEN [panic |-> FALSE, reduced |-> reduced \o Slice(s, <<p0, p1>>)]
    ELSE IF lo < 0 /\ checks THEN [panic |-> TRUE, reduced |-> reduced]
    ELSE IF lo >= 0 /\ SubSeq(s, lo + 1, lo + 2) = <<"\\", "\\">>
    THEN IF lo < p0 THEN [panic |-> TRUE, reduced |-> reduced]
         ELSE LET q == p0 + eol
                  q2 == RunEnd(s, {"\t", "\r", "\n"}, q)
              IN ReduceLoop_KeepBackslashes(s, q2, p1,
                            reduced \o SubSeq(s, p0 + 1, lo + 2) \o <<" ", " ">> \o Spaces(q2 - q),
                            checks)
    ELSE [panic |-> FALSE, reduced |-> reduced \o Slice(s, <<p0, p1>>)]

\* The `loop` that clears out the backslashes and direct newlines: part_span is
\* <<p0, p1>>, `reduced` the String built so far.
RECURSIVE ReduceLoop(_, _, _, _, _)
ReduceLoop(s, p0, p1, reduced, checks) ==
    IF ~SliceOk(s, <<p0, p1>>) THEN [panic |-> TRUE, reduced |-> reduced]
    ELSE
    LET eol == Find(Slice(s, <<p0, p1>>), Eol)
        lo == p0 + eol - 2
    IN
    IF eol < 0 THEN [panic |-> FALSE, reduced |-> reduced \o Slice(s, <<p0, p1>>)]
    ELSE IF lo < 0 /\ checks THEN [panic |-> TRUE, reduced |-> reduced]
    ELSE IF lo >= 0 /\ SubSeq(s, lo + 1, lo + 2) = <<"\\", "\\">>
    THEN IF lo < p0 THEN [panic |-> TRUE, reduced |-> reduced]
         ELSE LET q == p0 + eol
                  q2 == RunEnd(s, {"\t", "\r", "\n"}, q)
              IN ReduceLoop(s, q2, p1,
                            reduced \o SubSeq(s, p0 + 1, lo) \o <<" ", " ">> \o Spaces(q2 - q),
                            checks)
    ELSE [panic |-> FALSE, reduced |-> reduced \o Slice(s, <<p0, p1>>)]

\* the classification of the reduced text (from "Then, unescape if needed")
ClassifyReduced(reduced, span) ==
    IF Len(reduced) >= 1 /\ reduced[1] = "\"" THEN DiagNone
    ELSE IF matches_bool(reduced) THEN DiagOk
    ELSE IF matches_num(reduced) THEN DiagOk
    ELSE IF matches_ident(reduced) THEN DiagOk
    ELSE IF Len(reduced) >= 1 /\ reduced[1] = "("
    THEN LET r == parse(reduced) IN
         IF r.res = "Ok" THEN DiagOk
         ELSE IF r.res = "Panic" THEN DiagPanic
         ELSE DiagErr(<<CustomError(r.msg, <<span[1] + r.pos, span[2]>>)>>)
    ELSE DiagErr(<<ReportedError("BadValue", span)>>)

\* validate_property_text(text, span): s is the value slice, span its span
validate_property_text(s, span, checks) ==
    IF Len(s) = 0 THEN DiagOk
    ELSE LET p0 == TrimStart(s, 0)
             p1 == TrimValueEnd(s, Len(s), checks)
         IN
         IF p1 < 0 THEN DiagPanic
         ELSE LET r == ReduceLoop(s, p0, p1, <<>>, checks) IN
              IF r.panic THEN DiagPanic ELSE ClassifyReduced(r.reduced, span)

----------------------------------------------------------------------------
(* check.rs: SimpleSyntaxValidator and Directives::validate *)

visit_section_header(s, span) ==
    IF OBJECT_is_match(s) THEN DiagOk
    ELSE DiagErr(<<ReportedError("InvalidIdent", span)>>)

\* faulty variant: the value is not validated once the identifier is reported
visit_kvp_IdentOnly(op, prop, prop_span, s, text_span, checks) ==
    LET keyed == KEY_is_match(prop)
        c == try_report_comment(prop, prop_span)
        v == validate_property_text(s, text_span, checks)
    IN
    IF ~keyed /\ c.tag = "Ok" THEN DiagOk
    ELSE IF ~keyed /\ c.tag = "None"
    THEN DiagErr(<<ReportedError("InvalidIdent", prop_span)>>)
    ELSE IF ~keyed THEN DiagErr(c.errs)
    ELSE IF v.tag = "Panic" THEN DiagPanic
    ELSE v

visit_kvp(op, prop, prop_span, s, text_span, checks) ==
    LET keyed == KEY_is_match(prop)
        c == try_report_comment(prop, prop_span)
        ident_errs == IF keyed THEN <<>>
                      ELSE IF c.tag = "None"
                      THEN <<ReportedError("InvalidIdent", prop_span)>>
                      ELSE c.errs
        v == validate_property_text(s, text_span, checks)
        all == ident_errs \o v.errs
    IN
    IF ~keyed /\ c.tag = "Ok" THEN DiagOk
    ELSE IF v.tag = "Panic" THEN DiagPanic
    ELSE IF all # <<>> THEN DiagErr(all)
    ELSE v

\* faulty variant: Other is pushed whatever the two reports returned
visit_unknown_AlwaysOther(s, span) ==
    LET c == try_report_comment(s, span)
        h == try_report_section_error(s, span)
    IN
    IF c.tag = "Ok" THEN DiagOk
    ELSE DiagErr(c.errs \o h.errs \o <<ReportedError("Other", span)>>)

visit_unknown(s, span) ==
    LET c == try_report_comment(s, span)
        h == try_report_section_error(s, span)
        all == c.errs \o h.errs
    IN
    IF c.tag = "Ok" THEN DiagOk
    ELSE IF all = <<>> THEN DiagErr(<<ReportedError("Other", span)>>)
    ELSE DiagErr(all)

\* faulty variant: the test `!prev_line.ends_with(r"\\")` is missing
SpaceAfterMultiline_NoEndsWith(t, span, prev_span) ==
    IF prev_span = NoSpan THEN <<>>
    ELSE LET beg == RFindBackslashes(TrimEnd(Slice(t, prev_span))) IN
         IF beg >= 0
         THEN <<ReportedError("SpaceAfterMultiline", <<prev_span[1] + beg, span[2]>>)>>
         ELSE <<>>

\* the SpaceAfterMultiline check that validate appends to an Unknown's errors
SpaceAfterMultiline(t, span, prev_span) ==
    IF prev_span = NoSpan THEN <<>>
    ELSE LET prev_line == Slice(t, prev_span)
             beg == RFindBackslashes(TrimEnd(prev_line))
         IN IF ~EndsWithBackslashes(prev_line) /\ beg >= 0
            THEN <<ReportedError("SpaceAfterMultiline", <<prev_span[1] + beg, span[2]>>)>>
            ELSE <<>>

\* the body of `for d in &self.directives`: the errors directive d adds;
\* tag "Panic" when an index expression or a visit aborts
ValidateDirective(t, d, checks) ==
    IF d.kind = "SectionHeader"
    THEN IF ~SliceOk(t, d.obj_name) THEN DiagPanic
         ELSE visit_section_header(Slice(t, d.obj_name), d.obj_name)
    ELSE IF d.kind = "Kvp"
    THEN IF ~SliceOk(t, d.ident) \/ ~SliceOk(t, d.value) THEN DiagPanic
         ELSE visit_kvp(d.op, Slice(t, d.ident), d.ident, Slice(t, d.value), d.value, checks)
    ELSE IF ~SliceOk(t, d.span) THEN DiagPanic
         ELSE LET r == visit_unknown(Slice(t, d.span), d.span) IN
              IF r.tag # "Err" THEN r
              ELSE IF d.prev_span # NoSpan /\ ~SliceOk(t, d.prev_span) THEN DiagPanic
              ELSE DiagErr(r.errs \o SpaceAfterMultiline(t, d.span, d.prev_span))

\* faulty variant: the errors of a directive are put before those collected so far
RECURSIVE validate_from_Prepend(_, _, _, _, _)
validate_from_Prepend(t, dirs, k, acc, checks) ==
    IF k > Len(dirs) THEN [panic |-> FALSE, errs |-> acc]
    ELSE LET r == ValidateDirective(t, dirs[k], checks) IN
         IF r.tag = "Panic" THEN [panic |-> TRUE, errs |-> acc]
         ELSE validate_from_Prepend(t, dirs, k + 1, r.errs \o acc, checks)

RECURSIVE validate_from(_, _, _, _, _)
validate_from(t, dirs, k, acc, checks) ==
    IF k > Len(dirs) THEN [panic |-> FALSE, errs |-> acc]
    ELSE LET r == ValidateDirective(t, dirs[k], checks) IN
         IF r.tag = "Panic" THEN [panic |-> TRUE, errs |-> acc]
         ELSE validate_from(t, dirs, k + 1, acc \o r.errs, checks)

\* Directives::validate(&SimpleSyntaxValidator)
validate(t, dirs, checks) == validate_from(t, dirs, 1, <<>>, checks)

----------------------------------------------------------------------------
(* The state machine. *)

\* bytes that from_text tells apart: a blank, a line terminator, the equals
\* sign, the backslash, an operation sigil and an ordinary byte
LineAlphabet == {" ", "\n", "=", "\\", "+", "a"}

\* bytes of header lines and their near misses
HeaderAlphabet == {"[", "]", " ", "\n", "=", "a"}

\* bytes of struct values
ValueAlphabet == {"(", ")", "a", "=", ",", " "}

\* every text over the alphabet of length at most n
TextsOver(alphabet, n) == UNION {[1..m -> alphabet] : m \in 0..n}

\* bytes of lines that are neither a header nor a Kvp: brackets, the comment
\* markers, a blank and an ordinary byte
UnknownAlphabet == {"[", "]", ";", "/", " ", "a"}

\* what stands before such a line: nothing, a plain line, a line with \\ and a
\* blank after it, a line with \\ inside, a Kvp line ending with \\, and a
\* Kvp line with \\ and a blank after it
PrevLines ==
    { <<>>,
      <<"a", "\n">>,
      <<"\\", "\\", " ", "\n">>,
      <<"\\", "\\", "a", "\n">>,
      <<"=", "\\", "\\", "\n">>,
      <<"=", "\\", "\\", " ", "\n">> }

\* Struct values written after the grammar of the value parser, each with the
\* tree it denotes: terminals, property names, members `name=value`, and
\* structs of one or two members with an optional trailing comma.
Terms ==
    { [text |-> <<"a">>, tree |-> [node |-> "Terminal", s |-> <<"a">>]],
      [text |-> <<"\"", "a", "\"">>, tree |-> [node |-> "Terminal", s |-> <<"\"", "a", "\"">>]] }

FirstNames ==
    { [text |-> <<"b">>, name |-> <<"b">>, idx |-> NoIdx],
      [text |-> <<"b", "[", "1", "]">>, name |-> <<"b">>, idx |-> <<"1">>] }

SecondNames == { [text |-> <<"c">>, name |-> <<"c">>, idx |-> NoIdx] }

MemberOf(n, v) ==
    [text |-> n.text \o <<"=">> \o v.text,
     child |-> [name |-> n.name, idx |-> n.idx, val |-> v.tree]]

Leaves(names) == {MemberOf(n, v) : n \in names, v \in Terms}

StructsOver(firsts, seconds) ==
    {[text |-> <<"(">> \o m.text \o <<")">>, tree |-> StructNode(<<m.child>>)] : m \in firsts}
    \cup {[text |-> <<"(">> \o m.text \o <<",", ")">>, tree |-> StructNode(<<m.child>>)] :
            m \in firsts}
    \cup {[text |-> <<"(">> \o m.text \o <<",">> \o m2.text \o <<")">>,
           tree |-> StructNode(<<m.child, m2.child>>)] : m \in firsts, m2 \in seconds}
    \cup {[text |-> <<"(">> \o m.text \o <<",">> \o m2.text \o <<",", ")">>,
           tree |-> StructNode(<<m.child, m2.child>>)] : m \in firsts, m2 \in seconds}

RECURSIVE StructForms(_)
StructForms(d) ==
    IF d = 0 THEN StructsOver(Leaves(FirstNames), Leaves(SecondNames))
    ELSE StructsOver(Leaves(FirstNames)
                       \cup {MemberOf(n, f) : n \in FirstNames, f \in StructForms(d - 1)},
                     Leaves(SecondNames))

\* the value spread over lines: after every `,` followed by a space (and after
\* every `(` when `open` is set) the line ends with \\ and the next one is
\* indented by a space
RECURSIVE Spread(_, _)
Spread(v, open) ==
    IF v = <<>> THEN <<>>
    ELSE IF Head(v) = ","
    THEN <<",", " ", "\\", "\\", "\n", " ">> \o Spread(Tail(v), open)
    ELSE IF open /\ Head(v) = "("
    THEN <<"(", "\\", "\\", "\n", " ">> \o Spread(Tail(v), open)
    ELSE <<Head(v)>> \o Spread(Tail(v), open)

\* Kvps `a=<struct>` whose value is spread over several lines
ContinuedKvps ==
    {<<"a", "=">> \o Spread(f.text, open) : f \in StructForms(MaxDepth), open \in BOOLEAN}

\* v with a space after every `,`
RECURSIVE Spaced(_)
Spaced(v) ==
    IF v = <<>> THEN <<>>
    ELSE IF Head(v) = "," THEN <<",", " ">> \o Spaced(Tail(v))
    ELSE <<Head(v)>> \o Spaced(Tail(v))

\* struct values of the grammar, written densely and with spaced commas
ValueForms ==
    StructForms(MaxDepth)
    \cup {[text |-> Spaced(f.text), tree |-> f.tree] : f \in StructForms(MaxDepth)}

\* the texts of the struct values of the grammar
ValueTexts == {f.text : f \in ValueForms}

\* the length of the longest of them
LongestValue == CHOOSE n \in {Len(t) : t \in ValueTexts} : \A t \in ValueTexts : Len(t) <= n

\* the texts that are damaged below: the densely written struct values and
\* the flat ones with spaced commas
DamagedTexts ==
    {f.text : f \in StructForms(MaxDepth)} \cup {Spaced(f.text) : f \in StructForms(0)}

\* v with its i-th byte (1-based) replaced by c
ReplaceAt(v, i, c) == SubSeq(v, 1, i - 1) \o <<c>> \o SubSeq(v, i + 1, Len(v))

\* sigils that are neither `,` nor `)`
OffendingBytes == {";", "=", "("}

\* struct values in which one `,` (each follows a member's value) is replaced
\* by another sigil; pos is the offset of the replaced byte
OffendedForms ==
    {[text |-> ReplaceAt(x[1], x[2], x[3]), pos |-> x[2] - 1] :
        x \in {y \in DamagedTexts \X (1..LongestValue) \X OffendingBytes :
                  y[2] <= Len(y[1]) /\ y[1][y[2]] = ","}}

\* struct values cut short: their proper prefixes
TruncatedForms ==
    {SubSeq(x[1], 1, x[2]) :
        x \in {y \in DamagedTexts \X (0..LongestValue) : y[2] < Len(y[1])}}

\* array elements: terminals and one-level structs, each with its tree
ElemStructs == StructsOver(Leaves(SecondNames), Leaves(SecondNames))

\* arrays of one or two elements with an optional trailing comma
ArraysOver(firsts, seconds) ==
    {[text |-> <<"(">> \o e.text \o <<")">>, tree |-> ArrayNode(<<e.tree>>)] : e \in firsts}
    \cup {[text |-> <<"(">> \o e.text \o <<",", ")">>, tree |-> ArrayNode(<<e.tree>>)] :
            e \in firsts}
    \cup {[text |-> <<"(">> \o e.text \o <<",">> \o e2.text \o <<")">>,
           tree |-> ArrayNode(<<e.tree, e2.tree>>)] : e \in firsts, e2 \in seconds}
    \cup {[text |-> <<"(">> \o e.text \o <<",">> \o e2.text \o <<",", ")">>,
           tree |-> ArrayNode(<<e.tree, e2.tree>>)] : e \in firsts, e2 \in seconds}

\* structs of one member whose value is an array of terminals only
TerminalArrayForms ==
    {[text |-> <<"(">> \o m.text \o <<")">>, tree |-> StructNode(<<m.child>>)] :
        m \in {MemberOf(n, a) : n \in FirstNames, a \in ArraysOver(Terms, Terms)}}

\* structs of one member whose value is an array that holds a struct: as the
\* first element, or after a terminal
StructArrayForms ==
    {[text |-> <<"(">> \o m.text \o <<")">>, tree |-> StructNode(<<m.child>>)] :
        m \in {MemberOf(n, a) : n \in FirstNames,
                                a \in ArraysOver(ElemStructs, Terms \cup ElemStructs)
                                      \cup ArraysOver(Terms, ElemStructs)}}

\* bytes between the quotes of a quoted literal
QuoteAlphabet == {"a", " ", "(", ")", "[", ",", "=", ";"}

\* structs of one member whose value is a quoted literal, closed or not:
\* `body` is the text between the quotes
QuotedForms ==
    {[text |-> <<"(", "b", "=", "\"">> \o q \o <<"\"", ")">>, body |-> q, closed |-> TRUE] :
        q \in TextsOver(QuoteAlphabet, MaxQuotedLen)}
    \cup {[text |-> <<"(", "b", "=", "\"">> \o q, body |-> q, closed |-> FALSE] :
            q \in TextsOver(QuoteAlphabet, MaxQuotedLen)}

\* the struct (b[<index>]=a) parsed with the index n
IndexedTree(n) ==
    StructNode(<<[name |-> <<"b">>, idx |-> n, val |-> [node |-> "Terminal", s |-> <<"a">>]]>>)

\* what may stand between `[` and `]`, with the index it denotes: numbers up
\* to u32::MAX, written plainly, with a sign, with a leading zero or after a
\* blank
GoodIndices ==
    {[text |-> d, idx |-> d] : d \in TextsOver({"1", "9"}, MaxIndexLen) \ {<<>>}}
    \cup { [text |-> <<"0">>, idx |-> <<"0">>],
           [text |-> <<"4","2","9","4","9","6","7","2","9","5">>,
            idx |-> <<"4","2","9","4","9","6","7","2","9","5">>],
           [text |-> <<"0", "1">>, idx |-> <<"1">>],
           [text |-> <<"+", "1">>, idx |-> <<"1">>],
           [text |-> <<" ", "1">>, idx |-> <<"1">>] }

\* what is no index: numbers above u32::MAX, negative and non-numeric texts,
\* and tokens other than Text
BadIndices ==
    { <<"4","2","9","4","9","6","7","2","9","6">>,
      <<"9","9","9","9","9","9","9","9","9","9","9">>,
      <<"-", "1">>, <<"a">>, <<"1", "a">>, <<"1", " ">>,
      <<>>, <<"=">>, <<"(">>, <<";">>, <<"\"", "1", "\"">> }

\* what may stand in place of `]=a)` after a good index: the end of the text,
\* or another sigil and the rest
Unclosed ==
    {<<>>} \cup {<<c, "a", ")">> : c \in {"=", ")", ",", "[", "("}}

\* structs with an indexed name, each with the outcome its index calls for
IndexedForms ==
    {[text |-> <<"(", "b", "[">> \o g.text \o <<"]", "=", "a", ")">>,
      expect |-> [res |-> "Ok", val |-> IndexedTree(g.idx)]] : g \in GoodIndices}
    \cup {[text |-> <<"(", "b", "[">> \o b \o <<"]", "=", "a", ")">>,
           expect |-> [res |-> "Err", msg |-> "Expected array index"]] : b \in BadIndices}
    \cup {[text |-> <<"(", "b", "[">> \o g.text \o u,
           expect |-> [res |-> "Err", msg |-> "Expected ']'"]] :
            g \in GoodIndices, u \in Unclosed}

\* v with every `,` doubled in turn
DoubledCommas(v) ==
    {SubSeq(v, 1, i) \o <<",">> \o SubSeq(v, i + 1, Len(v)) :
        i \in {k \in 1..Len(v) : v[k] = ","}}

\* (b=<array of terminals>) with two commas in a row
DoubleCommaTexts == UNION {DoubledCommas(f.text) : f \in TerminalArrayForms}

\* arrays of terminals as array elements
ElemArrays == {[text |-> a.text] : a \in ArraysOver(Terms, Terms)}

\* plain terminals as array elements
ElemTerms == {[text |-> t.text] : t \in Terms}

\* (b=<array>) whose array holds an array of terminals as its first element
NestedFirstTexts ==
    {<<"(", "b", "=", "(">> \o e.text \o <<")", ")">> : e \in ElemArrays}
    \cup {<<"(", "b", "=", "(">> \o e.text \o <<",">> \o e2.text \o <<")", ")">> :
            e \in ElemArrays, e2 \in ElemTerms}

\* (b=<array>) whose array holds an array of terminals after a terminal
NestedLaterTexts ==
    {<<"(", "b", "=", "(">> \o e.text \o <<",">> \o e2.text \o <<")", ")">> :
        e \in ElemTerms, e2 \in ElemArrays}

\* (b=()) and the tree it denotes
EmptyArrayForm ==
    [text |-> <<"(", "b", "=", "(", ")", ")">>,
     tree |-> StructNode(<<[name |-> <<"b">>, idx |-> NoIdx, val |-> EmptyNode]>>)]

\* bytes of what may follow a struct value
TailAlphabet == {"a", "(", ")", ","}

\* one-level struct values, dense and spaced, followed by further text
TailedForms ==
    {[text |-> f.text \o x, tree |-> f.tree] :
        f \in StructForms(0) \cup {[text |-> Spaced(g.text), tree |-> g.tree] : g \in StructForms(0)},
        x \in TextsOver(TailAlphabet, MaxTailLen)}

\* the texts handed to the value lexer and parser
ValueInputs ==
    {f.text : f \in ValueForms}
    \cup {f.text : f \in OffendedForms}
    \cup TruncatedForms
    \cup {f.text : f \in TerminalArrayForms \cup StructArrayForms}
    \cup {f.text : f \in QuotedForms}
    \cup {f.text : f \in IndexedForms}
    \cup DoubleCommaTexts \cup NestedFirstTexts \cup NestedLaterTexts
    \cup {EmptyArrayForm.text}
    \cup {f.text : f \in TailedForms}

\* bytes between `=` and the value of a Kvp
Leads == {<<>>, <<" ">>, <<"\t">>}

\* Kvps `a=<struct>` whose value holds an offending sigil after a member, is
\* spread over several lines and may follow blanks
OffendedKvps ==
    {<<"a", "=">> \o l \o Spread(f.text, open) :
        l \in Leads, open \in BOOLEAN,
        f \in UNION {{[text |-> ReplaceAt(g.text, i, c)] :
                        i \in {k \in 1..Len(g.text) : g.text[k] = ","},
                        c \in OffendingBytes} : g \in StructForms(0)}}

\* bytes of identifiers and their near misses
KeyAlphabet == {"a", "_", "0", "1", "[", "]", "(", ")"}

\* a name with an index suffix in brackets or parentheses, well formed or not:
\* matched or mixed delimiters, empty, zero-padded and plain numbers, and
\* bytes after the suffix
IndexedKeys ==
    {<<"a", o>> \o n \o <<c>> \o t :
        o \in {"[", "("}, n \in TextsOver({"0", "1"}, MaxIndexLen), c \in {"]", ")"},
        t \in {<<>>, <<"a">>, <<"[", "1", "]">>}}

\* what stands before the identifier on its line
KeyPrefixes == {<<>>, <<" ">>, <<"+">>, <<";">>, <<"/", "/">>, <<" ", ";">>}

\* Kvps `<identifier>=a`
KeyedKvps ==
    {k \o <<"=", "a">> : k \in TextsOver(KeyAlphabet, MaxKeyLen)}
    \cup {p \o k \o <<"=", "a">> : p \in KeyPrefixes, k \in IndexedKeys \cup {<<"a">>}}

\* bytes of object names and their near misses
ObjectAlphabet == {"a", "1", " ", "."}

\* section header lines `[<interior>]`
HeaderLines ==
    {<<"[">> \o o \o <<"]">> : o \in TextsOver(ObjectAlphabet, MaxObjectLen)}

\* values of the accepted shapes and of none: an identifier, a struct, an
\* unfinished struct and two words
SampleValues == {<<"a">>, <<"(", "a", "=", "a", ")">>, <<"(">>, <<"a", " ", "a">>}

\* Kvps whose identifier is a key, is none, or stands behind a comment marker
CommentedKvps ==
    {p \o k \o <<"=">> \o v :
        p \in KeyPrefixes, k \in {<<>>, <<"a">>, <<"1">>}, v \in SampleValues}

\* the two line terminators, a sigil-free byte and the equals sign
TerminatorAlphabet == {"\r", "\n", "a", "="}

\* the texts handed to from_text
Inputs ==
    TextsOver(LineAlphabet \ {"+"}, MaxLen)
    \cup TextsOver(LineAlphabet, MaxLen - 1)
    \cup TextsOver(HeaderAlphabet, MaxHeaderLen)
    \cup {<<"a", "=">> \o v : v \in TextsOver(ValueAlphabet, MaxValueLen)}
    \cup {p \o l : p \in PrevLines, l \in TextsOver(UnknownAlphabet, MaxUnknownLen)}
    \cup ContinuedKvps
    \cup OffendedKvps
    \cup KeyedKvps
    \cup HeaderLines
    \cup CommentedKvps
    \cup TextsOver(TerminatorAlphabet, MaxLinesLen)

\* `result` before struct_syntax::parse has been called
NoResult == [res |-> "None"]

Init ==
    /\ text \in Inputs
    /\ overflow_checks \in BOOLEAN
    /\ pc = "input"
    /\ directives = <<>>
    /\ errs = <<>>
    /\ tokens = <<>>
    /\ result = NoResult

\* let directives = Directives::from_text(input);
FromText ==
    /\ pc = "input"
    /\ LET r == from_text(text, overflow_checks) IN
       /\ pc' = IF r.panic THEN "parse_panicked" ELSE "parsed"
       /\ directives' = r.directives
    /\ UNCHANGED <<text, overflow_checks, errs, tokens, result>>

\* let errors = directives.validate(&SimpleSyntaxValidator);
Validate ==
    /\ pc = "parsed"
    /\ LET r == validate(text, directives, overflow_checks) IN
       /\ pc' = IF r.panic THEN "validate_panicked" ELSE "validated"
       /\ errs' = r.errs
    /\ UNCHANGED <<text, overflow_checks, directives, tokens, result>>

Next == FromText \/ Validate

Spec == Init /\ [][Next]_vars

----------------------------------------------------------------------------
(* The value lexer and parser on their own: struct_syntax::Lexer and
   struct_syntax::parse applied to a value text, as the tests of
   struct_syntax.rs apply them. *)

\* The lexer and the parser do no arithmetic that can overflow, so the build
\* profile makes no difference to them; it is left at the release profile.
ValueInit ==
    /\ text \in ValueInputs
    /\ overflow_checks = FALSE
    /\ pc = "value"
    /\ directives = <<>>
    /\ errs = <<>>
    /\ tokens = <<>>
    /\ result = NoResult

\* let tokens = Lexer::new(text).collect::<Vec<_>>();
LexValue ==
    /\ pc = "value"
    /\ tokens' = Lexer_collect(text)
    /\ pc' = "lexed"
    /\ UNCHANGED <<text, overflow_checks, directives, errs, result>>

\* let result = parse(text);
ParseValue ==
    /\ pc = "lexed"
    /\ LET r == parse(text) IN
       /\ result' = r
       /\ pc' = IF r.res = "Panic" THEN "value_panicked" ELSE "value_parsed"
    /\ UNCHANGED <<text, overflow_checks, directives, errs, tokens>>

ValueNext == LexValue \/ ParseValue

ValueSpec == ValueInit /\ [][ValueNext]_vars

----------------------------------------------------------------------------
(* Properties of from_text. *)

\* from_text has returned: `directives` holds its result
Parsed == pc \in {"parsed", "validated", "validate_panicked"}

\* validate has returned: `errs` holds its result
Validated == pc = "validated"

Lines == split_lines(text)

DirIdx == 1..Len(directives)

Kvps == {i \in DirIdx : directives[i].kind = "Kvp"}

\* a well-formed span of the text
GoodSpan(sp) == 0 <= sp[1] /\ sp[1] <= sp[2] /\ sp[2] <= Len(text)

\* sp lies inside span
Within(sp, span) == span[1] <= sp[1] /\ sp[1] <= sp[2] /\ sp[2] <= span[2]

\* every span a directive carries
SpansOf(d) ==
    {d.span}
    \cup (IF d.kind = "SectionHeader" THEN {d.obj_name} ELSE {})
    \cup (IF d.kind = "Kvp" THEN {d.ident, d.value} ELSE {})
    \cup (IF d.kind = "Unknown" /\ d.prev_span # NoSpan THEN {d.prev_span} ELSE {})

\* index of the line of L on which directive d starts
LineIndexIn(L, d) ==
    CHOOSE k \in 1..Len(L) : L[k][1] <= d.span[1] /\ d.span[1] <= L[k][2]

\* index of the line on which directive d starts
LineIndexOf(d) == LineIndexIn(Lines, d)

\* the first byte of line k that is neither a space nor a tab
FirstNonBlank(k) == Byte(text, TrimStart(text, Lines[k][1]))

SigilOf(op) ==
    CASE op = "InsertUnique" -> "+"
      [] op = "Insert" -> "."
      [] op = "Remove" -> "-"
      [] op = "Clear" -> "!"
      [] OTHER -> NoByte

\* byte offset i lies in the top-level span of some directive
Covered(i) == \E k \in DirIdx : directives[k].span[1] <= i /\ i < directives[k].span[2]

\* byte offset i holds the operation sigil consumed by a Kvp
IsConsumedSigil(i) ==
    \E k \in Kvps : /\ directives[k].op # "Set"
                    /\ i = directives[k].span[1] - 1
                    /\ text[i + 1] = SigilOf(directives[k].op)

\* C1: every span from_text produces (top-level spans and sub-spans) satisfies
\* 0 <= start <= end <= len(T).
C1_SpansWithinText ==
    Parsed => \A k \in DirIdx : \A sp \in SpansOf(directives[k]) : GoodSpan(sp)

\* C2: validate with the default validator returns for every input; it never
\* aborts.
C2_ValidateReturns == pc # "validate_panicked"

\* C3: from_text returns a Directives value for every input text; it never
\* aborts.
C3_FromTextTotal == pc # "parse_panicked"

\* C4: for every Kvp, ident and value are sub-ranges of span, op is decided by
\* the first non-blank byte of the line, and with op other than Set the byte
\* before ident.start is the sigil.
C4_KvpShape ==
    Parsed => \A k \in Kvps :
        LET d == directives[k] IN
        /\ Within(d.ident, d.span)
        /\ Within(d.value, d.span)
        /\ d.op = KvpOperation_from(FirstNonBlank(LineIndexOf(d)))
        /\ d.op # "Set" => Byte(text, d.ident[1] - 1) = SigilOf(d.op)

\* C5: for every Kvp (whose ident span can be sliced), the ident slice neither
\* begins nor ends with a space or tab, and it starts after the consumed sigil.
C5_IdentTrimmed ==
    Parsed => \A k \in Kvps :
        LET d == directives[k] IN
        GoodSpan(d.ident) =>
            /\ d.ident[1] < d.ident[2] =>
                  /\ Byte(text, d.ident[1]) \notin Blank
                  /\ Byte(text, d.ident[2] - 1) \notin Blank
            /\ d.op # "Set" => d.ident[1] > TrimStart(text, Lines[LineIndexOf(d)][1])

\* C6 (as stated): every byte outside all directive top-level spans is a
\* whitespace byte.
C6_GapsAreWhitespace ==
    Parsed => \A i \in 0..(Len(text) - 1) : ~Covered(i) => text[i + 1] \in Whitespace

\* C6 (amended): every byte outside all directive top-level spans is a
\* whitespace byte or the operation sigil consumed by a Kvp, which stands
\* immediately before that Kvp's span.
C6_GapsAreWhitespaceOrSigil ==
    Parsed => \A i \in 0..(Len(text) - 1) :
        ~Covered(i) => text[i + 1] \in Whitespace \/ IsConsumedSigil(i)

\* C6 witness: a sigil Kvp after a blank-led line start, with an uncovered
\* whitespace byte and an uncovered sigil byte
C6_Witness ==
    /\ pc = "parsed"
    /\ \E k \in Kvps : directives[k].op # "Set"
    /\ \E i \in 0..(Len(text) - 1) : ~Covered(i) /\ IsConsumedSigil(i)
    /\ \E i \in 0..(Len(text) - 1) : ~Covered(i) /\ text[i + 1] \in Whitespace

\* C7: directives are in source order and disjoint (each span ends before the
\* next begins), and there are no more directives than lines.
C7_OrderedDisjoint ==
    Parsed =>
        /\ \A k \in 1..(Len(directives) - 1) :
               directives[k].span[2] <= directives[k + 1].span[1]
        /\ Len(directives) <= Len(Lines)

\* C7 witness: a Kvp that absorbed a continuation line (fewer directives than
\* lines)
C7_Witness ==
    /\ pc = "parsed"
    /\ Len(directives) >= 1
    /\ Len(directives) < Len(Lines)
    /\ \E k \in Kvps : "\n" \in {text[i] : i \in (directives[k].span[1] + 1)..directives[k].span[2]}

\* C7 witness of the ordering: two directives in a row, the first one a Kvp
C7_WitnessTwo ==
    /\ pc = "parsed"
    /\ Len(directives) >= 2
    /\ directives[1].kind = "Kvp"

\* C8: a SectionHeader is emitted only for a line whose raw first byte is [ and
\* raw last byte is ]; its span is the line span and obj_name is the interior.
C8_HeaderOnlyRawBrackets ==
    Parsed => \A k \in DirIdx :
        directives[k].kind = "SectionHeader" =>
            LET d == directives[k] IN
            /\ \E j \in 1..Len(Lines) : Lines[j] = d.span
            /\ d.span[2] - d.span[1] >= 2
            /\ text[d.span[1] + 1] = "["
            /\ text[d.span[2]] = "]"
            /\ d.obj_name = <<d.span[1] + 1, d.span[2] - 1>>
            /\ d.obj_name[1] <= d.obj_name[2]

\* C8 witness: a header with a non-empty interior next to a bracketed line
\* with a trailing blank that is no header
C8_Witness ==
    /\ pc = "parsed"
    /\ \E k \in DirIdx : /\ directives[k].kind = "SectionHeader"
                         /\ directives[k].obj_name[1] < directives[k].obj_name[2]

\* C8 witness of the near miss: a line [..] followed by a blank is not a header
C8_WitnessNearMiss ==
    /\ pc = "parsed"
    /\ text = <<"[", "a", "]", " ">>
    /\ directives[1].kind = "Unknown"

\* the line ends with the two bytes \\ (stated on the raw bytes)
EndsWithBackslashes_Raw(line) ==
    Len(line) >= 2 /\ SubSeq(line, Len(line) - 1, Len(line)) = <<"\\", "\\">>

\* index of the last line of L a Kvp starting on line k extends to: the first line
\* from k on that does not end with two backslashes, or the last line
LastLineOf(L, k) ==
    CHOOSE m \in k..Len(L) :
        /\ \A j \in k..(m - 1) : EndsWithBackslashes_Raw(Slice(text, L[j]))
        /\ m = Len(L) \/ ~EndsWithBackslashes_Raw(Slice(text, L[m]))

\* C9: a Kvp absorbs the following line exactly while the current line ends
\* with the two bytes \\ and a following line exists; value.end and span.end
\* are the end of the last absorbed line; the line after it is not part of the
\* Kvp and, unless blank, starts a directive of its own.
C9_ContinuationByteExact ==
    Parsed => \A k \in Kvps : \A L \in {Lines} :
        \A m \in {LastLineOf(L, LineIndexIn(L, directives[k]))} :
            /\ directives[k].value[2] = L[m][2]
            /\ directives[k].span[2] = L[m][2]
            /\ m < Len(L) =>
                  \/ AllWhitespace(Slice(text, L[m + 1]))
                  \/ \E n \in DirIdx : /\ n > k
                                       /\ L[m + 1][1] <= directives[n].span[1]
                                       /\ directives[n].span[1] <= L[m + 1][2]

\* C9 witness: a Kvp whose line ends with \\ absorbed the following line
C9_Witness ==
    /\ pc = "parsed"
    /\ \E k \in Kvps :
          LET d == directives[k]
              j == LineIndexOf(d)
          IN /\ j < Len(Lines)
             /\ EndsWithBackslashes_Raw(Slice(text, Lines[j]))
             /\ d.value[2] = Lines[j + 1][2]

\* C9 witness of the broken continuation: the Kvp line ends with \\ and a
\* blank, and the next line is a directive of its own
C9_WitnessBroken ==
    /\ pc = "parsed"
    /\ text = <<"=", "\\", "\\", " ", "\n", "a">>
    /\ Len(directives) = 2

\* the last line of the text belongs to a Kvp and ends with two backslashes
DanglingContinuation ==
    /\ Len(Lines) >= 1
    /\ EndsWithBackslashes_Raw(Slice(text, Lines[Len(Lines)]))
    /\ \E k \in Kvps : directives[k].span[2] = Lines[Len(Lines)][2]

\* C10: when the last line belongs to a Kvp and ends with \\, the default
\* validator reports Custom("Trailing \\ without following line") on that line.
C10_TrailingReported ==
    (Validated /\ DanglingContinuation) =>
        \E e \in 1..Len(errs) :
            /\ errs[e].kind = "Custom"
            /\ errs[e].msg = "Trailing \\\\ without following line"
            /\ Lines[Len(Lines)][1] <= errs[e].span[1]
            /\ errs[e].span[2] <= Lines[Len(Lines)][2]

----------------------------------------------------------------------------
(* Properties of validate on Unknown directives. *)

Unknowns == {i \in DirIdx : directives[i].kind = "Unknown"}

Min(S) == CHOOSE x \in S : \A y \in S : x <= y

MaxOf(S) == CHOOSE x \in S : \A y \in S : x >= y

\* 1-based positions of the bytes of a line that are not whitespace
NonWhitespace(line) == {i \in 1..Len(line) : line[i] \notin Whitespace}

\* the part of the line before its first `;`
BeforeComment(line) ==
    LET semis == {i \in 1..Len(line) : line[i] = ";"} IN
    IF semis = {} THEN line ELSE SubSeq(line, 1, Min(semis) - 1)

\* first and last non-whitespace bytes are [ and ]
Bracketed(line) ==
    LET nw == NonWhitespace(line) IN
    nw # {} /\ line[Min(nw)] = "[" /\ line[MaxOf(nw)] = "]"

\* line j is bracketed once surrounding whitespace and a trailing ;-comment
\* are ignored, its raw form is not, and it holds no `=`
MalformedHeaderLine(j) ==
    LET line == Slice(text, Lines[j]) IN
    /\ Bracketed(BeforeComment(line))
    /\ ~(line[1] = "[" /\ line[Len(line)] = "]")
    /\ \A i \in 1..Len(line) : line[i] # "="

\* line j was absorbed as a continuation line by a Kvp that began earlier
AbsorbedLine(j) ==
    \E k \in Kvps : /\ directives[k].span[1] < Lines[j][1]
                    /\ Lines[j][2] <= directives[k].span[2]

\* the line is a `;` comment: its first non-whitespace byte is `;`
SemicolonComment(line) ==
    LET nw == NonWhitespace(line) IN nw # {} /\ line[Min(nw)] = ";"

\* the returned errors that belong to the Unknown directive d, in order
ErrsOfUnknown(d) ==
    SelectSeq(errs, LAMBDA e :
        \/ /\ e.kind \in {"SlashSlashComent", "MalformedHeader", "Other"}
           /\ e.span = d.span
        \/ /\ e.kind = "SpaceAfterMultiline"
           /\ e.span[2] = d.span[2])

KindsOf(es) == {es[i].kind : i \in 1..Len(es)}

\* C11 (as claimed, read for lines that stand on their own): a line that is a
\* header but for surrounding whitespace or a trailing ;-comment, and holds no
\* `=`, is one Unknown over the whole line and validates to exactly one
\* diagnostic, MalformedHeader on the line span.
C11_MalformedHeaderOnly ==
    Validated => \A j \in 1..Len(Lines) :
        (MalformedHeaderLine(j) /\ ~AbsorbedLine(j)) =>
            \E k \in Unknowns :
                /\ directives[k].span = Lines[j]
                /\ ErrsOfUnknown(directives[k]) = <<ReportedError("MalformedHeader", Lines[j])>>

\* C11 (amended): such a line, unless a Kvp absorbed it as a continuation line,
\* is one Unknown over the whole line; its first diagnostic is MalformedHeader
\* on the line span, no Other or SlashSlashComent is added, and the only
\* diagnostic that may follow is one SpaceAfterMultiline, which needs a
\* previous line.
C11_MalformedHeaderFirst ==
    Validated => \A j \in 1..Len(Lines) :
        (MalformedHeaderLine(j) /\ ~AbsorbedLine(j)) =>
            \E k \in Unknowns :
                LET es == ErrsOfUnknown(directives[k]) IN
                /\ directives[k].span = Lines[j]
                /\ Len(es) \in {1, 2}
                /\ es[1] = ReportedError("MalformedHeader", Lines[j])
                /\ Len(es) = 2 => (es[2].kind = "SpaceAfterMultiline" /\ j > 1)

\* C11 witness: a header followed by a ;-comment, validated to MalformedHeader
C11_Witness ==
    /\ pc = "validated"
    /\ Len(Lines) = 1
    /\ MalformedHeaderLine(1)
    /\ \E i \in 1..Len(text) : text[i] = ";"
    /\ errs = <<ReportedError("MalformedHeader", Lines[1])>>

\* the line without the whitespace at its end
RightTrimmed(line) ==
    LET nw == NonWhitespace(line) IN
    IF nw = {} THEN <<>> ELSE SubSeq(line, 1, MaxOf(nw))

\* 0-based offsets in the line at which the two bytes \\ stand
BackslashPairs(line) ==
    {i \in 0..(Len(line) - 2) : line[i + 1] = "\\" /\ line[i + 2] = "\\"}

\* the line does not end with \\ but holds \\ once right-trimmed
BrokenContinuation(line) ==
    /\ ~EndsWithBackslashes_Raw(line)
    /\ BackslashPairs(RightTrimmed(line)) # {}

\* the SpaceAfterMultiline errors among es, in order
SpaceAfterMultilineIn(es) == SelectSeq(es, LAMBDA e : e.kind = "SpaceAfterMultiline")

\* C12: for an Unknown U that is not a `;` comment: if the line before U's line
\* does not end with \\ but holds \\ once right-trimmed, validate emits one
\* SpaceAfterMultiline from (the last of) those backslash pairs to U's end,
\* after U's other errors; otherwise it emits none for U.
C12_SpaceAfterMultiline ==
    Validated => \A k \in Unknowns :
        LET U == directives[k]
            j == LineIndexOf(U)
            es == ErrsOfUnknown(U)
        IN
        ~SemicolonComment(Slice(text, U.span)) =>
            IF j > 1 /\ BrokenContinuation(Slice(text, Lines[j - 1]))
            THEN LET L == Slice(text, Lines[j - 1])
                     beg == Lines[j - 1][1] + MaxOf(BackslashPairs(RightTrimmed(L)))
                 IN /\ SpaceAfterMultilineIn(es)
                          = <<ReportedError("SpaceAfterMultiline", <<beg, U.span[2]>>)>>
                    /\ Len(es) >= 2
                    /\ es[Len(es)].kind = "SpaceAfterMultiline"
            ELSE SpaceAfterMultilineIn(es) = <<>>

\* C12 witness: an Unknown after a line with a broken continuation, reported
\* with SpaceAfterMultiline
C12_Witness ==
    /\ pc = "validated"
    /\ \E k \in Unknowns :
          LET j == LineIndexOf(directives[k]) IN
          /\ j > 1
          /\ BrokenContinuation(Slice(text, Lines[j - 1]))
          /\ Len(SpaceAfterMultilineIn(ErrsOfUnknown(directives[k]))) = 1

\* an Unknown whose previous line ends with \\ : no SpaceAfterMultiline
C12_WitnessNone ==
    /\ pc = "validated"
    /\ \E k \in Unknowns :
          LET j == LineIndexOf(directives[k]) IN
          /\ j > 1
          /\ EndsWithBackslashes_Raw(Slice(text, Lines[j - 1]))
          /\ errs # <<>>

C13_WitnessComment ==
    /\ pc = "validated"
    /\ \E k \in Unknowns :
          KindsOf(ErrsOfUnknown(directives[k])) = {"SlashSlashComent"}

----------------------------------------------------------------------------
(* Properties of multi-line struct values. *)

\* C14: a Kvp with a valid key whose value is a well-formed struct spread over
\* several lines, each but the last ending with \\ and the continuation lines
\* indented with spaces, is exactly one Kvp that absorbs all the lines, and the
\* validator returns no diagnostic for it.
C14_ContinuedStructClean ==
    (text \in ContinuedKvps /\ "\n" \in {text[i] : i \in 1..Len(text)}) =>
        /\ pc \notin {"parse_panicked", "validate_panicked"}
        /\ Parsed => directives = <<[kind |-> "Kvp", span |-> <<0, Len(text)>>,
                                     ident |-> <<0, 1>>, op |-> "Set",
                                     value |-> <<2, Len(text)>>]>>
        /\ Validated => errs = <<>>

\* C14 witness: a validated struct value of three lines with a nested struct
C14_Witness ==
    /\ pc = "validated"
    /\ text \in ContinuedKvps
    /\ Len(Lines) >= 3
    /\ \E i \in 1..(Len(text) - 1) : text[i] = "=" /\ text[i + 1] = "("  /\ i > 3
    /\ errs = <<>>

----------------------------------------------------------------------------
(* Properties of struct_syntax::parse. *)

\* C15: a value `(` name `=` value (`,` name `=` value)* `,`? `)`, with names
\* that may carry an index and values that are terminals or nested structs, is
\* accepted, and the Struct returned holds one (name, index, value) child per
\* member, in source order, nested structs nested accordingly.
C15_StructFormsParse ==
    pc \in {"value_parsed", "value_panicked"} =>
        (text \in ValueTexts =>
             /\ result.res = "Ok"
             /\ [text |-> text, tree |-> result.val] \in ValueForms)

\* a two-member struct whose first member is indexed and holds a nested struct
C15_Witness ==
    /\ pc = "value_parsed"
    /\ text = <<"(", "b", "[", "1", "]", "=", "(", "b", "=", "a", ")", ",", " ",
                "c", "=", "\"", "a", "\"", ")">>
    /\ text \in ValueTexts
    /\ result.res = "Ok"
    /\ Len(result.val.children) = 2
    /\ result.val.children[1].idx = <<"1">>
    /\ result.val.children[1].val.node = "Struct"

\* the texts with an offending sigil after a member's value
OffendedTexts == {f.text : f \in OffendedForms}

\* start offsets of the tokens of the text
TokenStarts == {tokens[k].start : k \in 1..Len(tokens)}

\* C16: when the value of a struct member is followed by a token that is
\* neither `,` nor `)`, parse fails with "Expected ',' or ')'" at the offset of
\* that token; a struct cut short fails at the text length; and the pos of
\* every ParseError is the start of a token or the text length.
C16_ErrorPositions ==
    pc \in {"value_parsed", "value_panicked"} =>
        /\ text \in OffendedTexts =>
               /\ result.res = "Err"
               /\ result.msg = "Expected ',' or ')'"
               /\ [text |-> text, pos |-> result.pos] \in OffendedForms
        /\ text \in TruncatedForms =>
               result.res = "Err" /\ result.pos = Len(text)
        /\ result.res = "Err" => result.pos \in TokenStarts \cup {Len(text)}

\* (b=a; c="a") fails at offset 4, the offset of the `;`
C16_Witness ==
    /\ pc = "value_parsed"
    /\ text = <<"(", "b", "=", "a", ";", " ", "c", "=", "\"", "a", "\"", ")">>
    /\ [text |-> text, pos |-> 4] \in OffendedForms
    /\ result.res = "Err"
    /\ result.pos = 4
    /\ tokens[5] = [kind |-> "Semi", start |-> 4, end |-> 5]

\* a struct cut after `(b=a,` fails at its length
C16_WitnessEnd ==
    /\ pc = "value_parsed"
    /\ text = <<"(", "b", "=", "a", ",">>
    /\ text \in TruncatedForms
    /\ result.res = "Err"
    /\ result.pos = 5

\* the texts of the arrays of structs
StructArrayTexts == {f.text : f \in StructArrayForms}

\* C17: a member value whose inner `(` opens an array that holds a struct, as
\* its first element or after a terminal, is accepted and parsed to an Array
\* with the structs as elements.
C17_ArraysOfStructsParse ==
    pc \in {"value_parsed", "value_panicked"} =>
        (text \in StructArrayTexts =>
             /\ result.res = "Ok"
             /\ [text |-> text, tree |-> result.val] \in StructArrayForms)

\* (b=((c=a),(c=a))) makes parse_struct reach its unreachable!()
C17_PanicReached ==
    /\ pc = "value_panicked"
    /\ text = <<"(", "b", "=", "(", "(", "c", "=", "a", ")", ",",
                "(", "c", "=", "a", ")", ")", ")">>
    /\ text \in StructArrayTexts

\* the Quoted token of a quoted form: from the opening quote to the closing
\* one, or to the end of the text
QuotedToken(f) ==
    [kind |-> "Quoted", start |-> 3,
     end |-> IF f.closed THEN Len(f.body) + 5 ELSE Len(f.text)]

\* offsets of the `"` bytes after offset i
QuotesAfter(i) == {k \in (i + 1)..(Len(text) - 1) : text[k + 1] = "\""}

\* C18: a Quoted token starts at a `"` and runs to the next `"` inclusive,
\* whatever bytes lie between, or to the end of the text when there is none;
\* a struct `(b="..")` lexes to LParen, Text, Eq, one Quoted token, RParen.
C18_QuotedTokenSpansLiteral ==
    pc # "value" =>
        /\ \A k \in 1..Len(tokens) :
               tokens[k].kind = "Quoted" =>
                   /\ text[tokens[k].start + 1] = "\""
                   /\ tokens[k].end = IF QuotesAfter(tokens[k].start) = {} THEN Len(text)
                                      ELSE Min(QuotesAfter(tokens[k].start)) + 1
        /\ \A f \in QuotedForms :
               f.text = text =>
                   tokens = <<[kind |-> "LParen", start |-> 0, end |-> 1],
                              [kind |-> "Text", start |-> 1, end |-> 2],
                              [kind |-> "Eq", start |-> 2, end |-> 3],
                              QuotedToken(f)>>
                            \o (IF f.closed
                                THEN <<[kind |-> "RParen", start |-> Len(f.text) - 1,
                                        end |-> Len(f.text)]>>
                                ELSE <<>>)

\* (b="a,a") is lexed with a Quoted token that stops before the `,`
C18_SplitReached ==
    /\ pc = "lexed"
    /\ text = <<"(", "b", "=", "\"", "a", ",", "a", "\"", ")">>
    /\ tokens[4] = [kind |-> "Quoted", start |-> 3, end |-> 5]
    /\ tokens[5].kind = "Comma"

----------------------------------------------------------------------------
(* Properties of the Custom diagnostics of validate_property_text. *)

\* number of spaces and tabs v begins with
LeadingBlanks(v) == Min({k \in 0..(Len(v) - 1) : v[k + 1] \notin {" ", "\t"}} \cup {Len(v)})

\* the text the value parser is given for the value v: v without surrounding
\* blanks, its continuations blanked out
ReducedValue(v) ==
    ReduceLoop(v, LeadingBlanks(v), RunEndBack(v, Len(v)), <<>>, FALSE).reduced

\* the Custom diagnostics of the Kvp d
CustomErrsOf(d) ==
    {k \in 1..Len(errs) : errs[k].kind = "Custom" /\ errs[k].span[2] = d.value[2]}

\* C19: a Custom diagnostic of a failed value parse lies within the value span
\* of its Kvp and starts at the offset, in the input text, of the token at
\* which the parser observed the failure: the value's start, plus the blanks
\* the value begins with, plus the offset of that token in the parsed text,
\* whose bytes stand at the places they have in the value.
C19_CustomSpanAtToken ==
    Validated =>
        \A i \in Kvps : \A k \in CustomErrsOf(directives[i]) :
            LET value == directives[i].value
                v == Slice(text, value)
                r == parse(ReducedValue(v))
            IN /\ value[1] <= errs[k].span[1]
               /\ errs[k].span[1] <= errs[k].span[2]
               /\ errs[k].span[2] <= value[2]
               /\ Len(ReducedValue(v)) = RunEndBack(v, Len(v)) - LeadingBlanks(v)
               /\ r.res = "Err"
               /\ errs[k].span[1] = value[1] + LeadingBlanks(v) + r.pos

\* C19 for the values that begin right after the `=`
C19_CustomSpanNoLead ==
    Validated =>
        \A i \in Kvps : \A k \in CustomErrsOf(directives[i]) :
            LET value == directives[i].value
                v == Slice(text, value)
                r == parse(ReducedValue(v))
            IN LeadingBlanks(v) = 0 =>
                   /\ r.res = "Err"
                   /\ errs[k].span = <<value[1] + r.pos, value[2]>>

\* `a= (a)`: the parser fails at the `)`, byte 5, and the diagnostic starts at 4
C19_ShiftReached ==
    /\ Validated
    /\ text = <<"a", "=", " ", "(", "a", ")">>
    /\ \E k \in 1..Len(errs) : errs[k].kind = "Custom" /\ errs[k].span = <<4, 6>>

----------------------------------------------------------------------------
(* Properties of the identifier check of visit_kvp. *)

\* `0`, or a decimal number that does not begin with 0
PlainIndex(d) ==
    /\ Len(d) >= 1
    /\ \A k \in 1..Len(d) : d[k] \in Digit
    /\ (Len(d) > 1 => d[1] # "0")

\* the KEY shape: a letter, then letters, digits and underscores up to some
\* byte n, and after it nothing or one index `[n]` or `(n)` up to the end
KeyShape(s) ==
    \E n \in 1..Len(s) :
        /\ s[1] \in Letter
        /\ \A k \in 2..n : s[k] \in Letter \cup Digit \cup {"_"}
        /\ \/ n = Len(s)
           \/ /\ Len(s) >= n + 3
              /\ <<s[n + 1], s[Len(s)]>> \in {<<"[", "]">>, <<"(", ")">>}
              /\ PlainIndex(SubSeq(s, n + 2, Len(s) - 1))

\* the identifier begins, whitespace aside, with `;` or `//`
CommentIdent(s) ==
    \E k \in 1..Len(s) :
        /\ \A j \in 1..(k - 1) : s[j] \in {" ", "\t", "\r", "\n"}
        /\ \/ s[k] = ";"
           \/ k < Len(s) /\ s[k] = "/" /\ s[k + 1] = "/"

\* InvalidIdent is reported on the span sp
InvalidIdentAt(sp) ==
    \E k \in 1..Len(errs) : errs[k].kind = "InvalidIdent" /\ errs[k].span = sp

\* C20: for a Kvp whose identifier does not begin, once trimmed, with `;` or
\* `//`, InvalidIdent is reported on the ident span if and only if the
\* identifier text does not have the KEY shape.
C20_InvalidIdentIffNotKey ==
    Validated =>
        \A i \in Kvps :
            ~CommentIdent(Slice(text, directives[i].ident)) =>
                (InvalidIdentAt(directives[i].ident)
                     <=> ~KeyShape(Slice(text, directives[i].ident)))

\* a(1)=a is accepted
C20_Witness ==
    /\ Validated
    /\ text = <<"a", "(", "1", ")", "=", "a">>
    /\ \E i \in Kvps : directives[i].ident = <<0, 4>> /\ KeyShape(Slice(text, <<0, 4>>))
    /\ errs = <<>>

\* a[01]=a is reported for its zero-padded index
C20_WitnessPadded ==
    /\ Validated
    /\ text = <<"a", "[", "0", "1", "]", "=", "a">>
    /\ \E i \in Kvps : directives[i].ident = <<0, 5>>
    /\ InvalidIdentAt(<<0, 5>>)

----------------------------------------------------------------------------
(* Properties of visit_section_header. *)

Headers == {i \in DirIdx : directives[i].kind = "SectionHeader"}

\* a letter followed by letters, digits and underscores
IdentShape(s) ==
    /\ Len(s) >= 1
    /\ s[1] \in Letter
    /\ \A k \in 2..Len(s) : s[k] \in Letter \cup Digit \cup {"_"}

\* an identifier, or two identifiers with one space or one dot between them
ObjectShape(s) ==
    \/ IdentShape(s)
    \/ \E n \in 2..(Len(s) - 1) :
           /\ s[n] \in {" ", "."}
           /\ IdentShape(SubSeq(s, 1, n - 1))
           /\ IdentShape(SubSeq(s, n + 1, Len(s)))

\* the positions in errs of the diagnostics on the span sp
ErrsOn(sp) == {k \in 1..Len(errs) : errs[k].span = sp}

\* C21: a SectionHeader whose interior is not an identifier optionally followed
\* by one space or dot and a second identifier gets exactly one diagnostic,
\* InvalidIdent on the obj_name span; any other SectionHeader gets none, and
\* none is ever put on the span of the whole header line.
C21_HeaderInvalidIdent ==
    Validated =>
        \A i \in Headers :
            LET d == directives[i] IN
            /\ ObjectShape(Slice(text, d.obj_name)) => ErrsOn(d.obj_name) = {}
            /\ ~ObjectShape(Slice(text, d.obj_name)) =>
                   /\ Cardinality(ErrsOn(d.obj_name)) = 1
                   /\ \A k \in ErrsOn(d.obj_name) : errs[k].kind = "InvalidIdent"
            /\ ErrsOn(d.span) = {}

\* [a.a.a] is reported on its interior (1,6)
C21_Witness ==
    /\ Validated
    /\ text = <<"[", "a", ".", "a", ".", "a", "]">>
    /\ \E i \in Headers : directives[i].obj_name = <<1, 6>>
    /\ errs = <<ReportedError("InvalidIdent", <<1, 6>>)>>

\* [a a] is accepted; [] and [ a] are reported
C21_WitnessAccepted ==
    /\ Validated
    /\ text = <<"[", "a", " ", "a", "]">>
    /\ Headers # {}
    /\ errs = <<>>

C21_WitnessEmpty ==
    /\ Validated
    /\ text = <<"[", "]">>
    /\ errs = <<ReportedError("InvalidIdent", <<1, 1>>)>>

----------------------------------------------------------------------------
(* Properties of visit_kvp. *)

\* the offset of the first byte of s that is no whitespace, or Len(s)
SkipBlanks(s) ==
    Min({k \in 0..(Len(s) - 1) : s[k + 1] \notin {" ", "\t", "\r", "\n"}} \cup {Len(s)})

\* the trimmed identifier begins with `;`
SemicolonIdent(s) == SkipBlanks(s) < Len(s) /\ s[SkipBlanks(s) + 1] = ";"

\* the trimmed identifier begins with `//`
SlashSlashIdent(s) ==
    /\ SkipBlanks(s) + 1 < Len(s)
    /\ s[SkipBlanks(s) + 1] = "/"
    /\ s[SkipBlanks(s) + 2] = "/"

\* the returned errors that belong to the Kvp d, in order
ErrsOfKvp(d) ==
    SelectSeq(errs, LAMBDA e :
        /\ e.kind \in {"InvalidIdent", "SlashSlashComent", "BadValue", "Custom"}
        /\ d.span[1] <= e.span[1]
        /\ e.span[2] <= d.span[2])

\* what the validation of the value of the Kvp d reports
ValueErrsOf(d) == validate_property_text(Slice(text, d.value), d.value, overflow_checks).errs

\* C22: for a Kvp whose identifier is no KEY, a trimmed identifier that begins
\* with `;` silences the directive; one that begins with `//` is reported as
\* SlashSlashComment on the ident span; any other is reported as InvalidIdent
\* on the ident span; in the last two cases the errors of the value follow.
C22_CommentedKvp ==
    Validated =>
        \A i \in Kvps :
            LET d == directives[i]
                id == Slice(text, d.ident)
            IN ~KeyShape(id) =>
                   IF SemicolonIdent(id) THEN ErrsOfKvp(d) = <<>>
                   ELSE ErrsOfKvp(d) =
                            <<ReportedError(IF SlashSlashIdent(id) THEN "SlashSlashComent"
                                            ELSE "InvalidIdent", d.ident)>>
                            \o ValueErrsOf(d)

\* //a=( is reported as a comment and for its value
C22_Witness ==
    /\ Validated
    /\ text = <<"/", "/", "a", "=", "(">>
    /\ Kvps # {}
    /\ Len(errs) = 2
    /\ errs[1] = ReportedError("SlashSlashComent", <<0, 3>>)
    /\ errs[2].kind = "Custom"

\* ;a=( is silent
C22_WitnessSemicolon ==
    /\ Validated
    /\ text = <<";", "a", "=", "(">>
    /\ Kvps # {}
    /\ errs = <<>>

\* 1=a a is reported for its identifier and then for its value
C22_WitnessInvalid ==
    /\ Validated
    /\ text = <<"1", "=", "a", " ", "a">>
    /\ errs = <<ReportedError("InvalidIdent", <<0, 1>>), ReportedError("BadValue", <<2, 5>>)>>

----------------------------------------------------------------------------
(* Properties of visit_unknown on comments. *)

\* C23: an Unknown whose trimmed line begins with `;` contributes no
\* diagnostic: no Other, no MalformedHeader, no SlashSlashComment and no
\* SpaceAfterMultiline, whatever the line holds and whatever precedes it.
C23_SemicolonUnknownSilent ==
    Validated =>
        \A i \in Unknowns :
            SemicolonIdent(Slice(text, directives[i].span)) =>
                ErrsOfUnknown(directives[i]) = <<>>

\* ` ;]` after a line with \\ and a blank: only the first line is reported
C23_Witness ==
    /\ Validated
    /\ text = <<"\\", "\\", " ", "\n", " ", ";", "]">>
    /\ \E i \in Unknowns :
           /\ directives[i].span = <<4, 7>>
           /\ directives[i].prev_span # <<>>
           /\ ErrsOfUnknown(directives[i]) = <<>>
    /\ errs = <<ReportedError("Other", <<0, 3>>)>>

\* ;[] on its own is silent
C23_WitnessBracketed ==
    /\ Validated
    /\ text = <<";", "[", "]">>
    /\ Unknowns # {}
    /\ errs = <<>>

----------------------------------------------------------------------------
(* Properties of validate_property_text on blank and empty values. *)

\* validate has been called, and has returned or panicked
ValidateCalled == pc \in {"validated", "validate_panicked"}

\* the positions in errs of the value diagnostics of the Kvp d
ValueErrsAt(d) ==
    {k \in 1..Len(errs) :
        /\ errs[k].kind \in {"BadValue", "Custom"}
        /\ d.value[1] <= errs[k].span[1]
        /\ errs[k].span[2] = d.value[2]}

\* C24: a value that is not empty but holds only spaces and tabs is reported
\* as BadValue on the value span, and an empty value is not reported.
C24_BlankValueIsBadValue ==
    ValidateCalled =>
        \A i \in Kvps :
            LET d == directives[i]
                v == Slice(text, d.value)
            IN /\ (Len(v) >= 1 /\ \A k \in 1..Len(v) : v[k] \in {" ", "\t"}) =>
                      /\ Validated
                      /\ \E k \in ValueErrsAt(d) :
                             errs[k] = ReportedError("BadValue", d.value)
               /\ (Len(v) = 0 /\ Validated) => ValueErrsAt(d) = {}

\* a= makes validate panic in both build profiles
C24_PanicReached ==
    /\ pc = "validate_panicked"
    /\ text = <<"a", "=", " ">>
    /\ directives[1].value = <<2, 3>>

\* a= with nothing after it is not reported
C24_EmptyValueSilent ==
    Validated /\ text = <<"a", "=">> => errs = <<>>

----------------------------------------------------------------------------
(* Properties of the index of a property name. *)

IndexedTexts == {f.text : f \in IndexedForms}

\* what the result says: the tree, the message, or the panic
Outcome(r) ==
    IF r.res = "Ok" THEN [res |-> "Ok", val |-> r.val]
    ELSE IF r.res = "Err" THEN [res |-> "Err", msg |-> r.msg]
    ELSE [res |-> r.res]

\* C25: after `[` in a property name, a Text token that parses as u32 (0 to
\* 4294967295) followed by `]` is accepted and stored as the index; a larger,
\* negative or non-numeric Text, or another token, fails with "Expected array
\* index"; anything but `]` after a good index fails with "Expected ']'".
C25_IndexIsU32 ==
    pc \in {"value_parsed", "value_panicked"} =>
        (text \in IndexedTexts =>
             [text |-> text, expect |-> Outcome(result)] \in IndexedForms)

\* (b[4294967295]=a) is accepted with its index
C25_Witness ==
    /\ pc = "value_parsed"
    /\ text = <<"(", "b", "[", "4","2","9","4","9","6","7","2","9","5", "]", "=", "a", ")">>
    /\ text \in IndexedTexts
    /\ result.res = "Ok"
    /\ result.val.children[1].idx = <<"4","2","9","4","9","6","7","2","9","5">>

\* (b[4294967296]=a) is rejected
C25_WitnessTooLarge ==
    /\ pc = "value_parsed"
    /\ text = <<"(", "b", "[", "4","2","9","4","9","6","7","2","9","6", "]", "=", "a", ")">>
    /\ result.res = "Err"
    /\ result.msg = "Expected array index"

\* (b[1=a) is rejected for its missing bracket
C25_WitnessUnclosed ==
    /\ pc = "value_parsed"
    /\ text = <<"(", "b", "[", "1", "=", "a", ")">>
    /\ result.res = "Err"
    /\ result.msg = "Expected ']'"

----------------------------------------------------------------------------
(* Properties of arrays of terminals. *)

TerminalArrayTexts == {f.text : f \in TerminalArrayForms}

\* arrays of terminals with single commas and an optional trailing comma are
\* accepted with their elements in order, two commas in a row are rejected,
\* and () is Empty
ArraysOfTerminals ==
    /\ text \in TerminalArrayTexts =>
           /\ result.res = "Ok"
           /\ [text |-> text, tree |-> result.val] \in TerminalArrayForms
    /\ text \in DoubleCommaTexts => result.res = "Err"
    /\ text = EmptyArrayForm.text =>
           result.res = "Ok" /\ result.val = EmptyArrayForm.tree

\* C26: arrays of terminals are parsed as described above, and an array that
\* holds an array of terminals as an element, at any position, is rejected
\* with a ParseError.
C26_TerminalArrays ==
    pc \in {"value_parsed", "value_panicked"} =>
        /\ ArraysOfTerminals
        /\ text \in NestedFirstTexts \cup NestedLaterTexts => result.res = "Err"

\* the same without the arrays that hold an array
C26_FlatArrays ==
    pc \in {"value_parsed", "value_panicked"} => ArraysOfTerminals

\* ... and with the nested array after a Text terminal
C26_NestedAfterText ==
    pc \in {"value_parsed", "value_panicked"} =>
        (text \in NestedLaterTexts /\ text[5] = "a" => result.res = "Err")

\* (b=((a,a))) makes parse_struct reach its unreachable!()
C26_PanicReached ==
    /\ pc = "value_panicked"
    /\ text = <<"(", "b", "=", "(", "(", "a", ",", "a", ")", ")", ")">>
    /\ text \in NestedFirstTexts

\* (b=(a,(a,a))) is rejected
C26_RejectedReached ==
    /\ pc = "value_parsed"
    /\ text = <<"(", "b", "=", "(", "a", ",", "(", "a", ",", "a", ")", ")", ")">>
    /\ result.res = "Err"

----------------------------------------------------------------------------
(* Properties of the line splitter. *)

\* from_text has been called
FromTextCalled == pc # "input"

\* the byte at offset k is a line terminator
IsTerminator(k) == text[k + 1] \in {"\r", "\n"}

\* the spans L partition the text into lines: they come in input order, none
\* holds a CR or LF, only the first can be empty (when the text begins with a
\* terminator), what lies between two of them, and after the last, is CR/LF
\* bytes only, and every other byte lies in exactly one of them
PartitionsText(L) ==
    /\ \A i \in 1..Len(L) :
           /\ 0 <= L[i][1] /\ L[i][1] <= L[i][2] /\ L[i][2] <= Len(text)
           /\ \A k \in L[i][1]..(L[i][2] - 1) : ~IsTerminator(k)
           /\ (L[i][1] = L[i][2]) => (i = 1 /\ IsTerminator(0))
    /\ \A i \in 1..(Len(L) - 1) :
           /\ L[i][2] < L[i + 1][1]
           /\ \A k \in L[i][2]..(L[i + 1][1] - 1) : IsTerminator(k)
    /\ Len(text) > 0 => Len(L) >= 1 /\ L[1][1] = 0
    /\ Len(text) = 0 => L = <<>>
    /\ Len(L) >= 1 => \A k \in L[Len(L)][2]..(Len(text) - 1) : IsTerminator(k)
    /\ \A k \in 0..(Len(text) - 1) :
           ~IsTerminator(k) =>
               Cardinality({i \in 1..Len(L) : L[i][1] <= k /\ k < L[i][2]}) = 1

\* C27: the line spans come in input order, none holds a CR or LF, each
\* maximal run of CR/LF bytes between two lines is one separator, only the
\* first line can be empty (when the text begins with a terminator), no line
\* follows the last terminator, and every byte that is no CR/LF lies in
\* exactly one line span.
C27_LinesPartitionText ==
    FromTextCalled => \A L \in {Lines} : PartitionsText(L)

\* LF a CR LF a LF: an empty first line, then two lines of one byte
C27_Witness ==
    /\ FromTextCalled
    /\ text = <<"\n", "a", "\r", "\n", "a">>
    /\ Lines = << <<0, 0>>, <<1, 2>>, <<4, 5>> >>

\* a LF LF: no line after the last terminator
C27_WitnessTrailing ==
    /\ FromTextCalled
    /\ text = <<"a", "\n", "\n">>
    /\ Lines = << <<0, 1>> >>

----------------------------------------------------------------------------
(* Properties of parse on text after the closing parenthesis. *)

TailedTexts == {f.text : f \in TailedForms}

\* texts put after a parsed value
TailSamples == {<<")">>, <<"(">>, <<",", ",">>, <<" ", "a">>, <<"=", "a">>, <<";">>, <<"\"">>}

\* C28: what follows the `)` that closes the root struct is never examined:
\* a struct value followed by further text parses to the tree of the struct
\* value, a text that parses still parses, to the same tree, with more text
\* after it, and the validation of such a value reports nothing.
C28_TailIgnored ==
    pc \in {"value_parsed", "value_panicked"} =>
        /\ text \in TailedTexts =>
               /\ result.res = "Ok"
               /\ [text |-> text, tree |-> result.val] \in TailedForms
               /\ validate_property_text(text, <<0, Len(text)>>, overflow_checks) = DiagOk
        /\ result.res = "Ok" =>
               \A x \in TailSamples :
                   \A r \in {parse(text \o x)} : r.res = "Ok" /\ r.val = result.val

\* (b=a)a,) parses to Struct[b = a]
C28_Witness ==
    /\ pc = "value_parsed"
    /\ text = <<"(", "b", "=", "a", ")", "a", ",", ")">>
    /\ text \in TailedTexts
    /\ result.res = "Ok"
    /\ Len(result.val.children) = 1
    /\ Len(tokens) = 8

----------------------------------------------------------------------------
(* Properties of the error list as a whole. *)

\* the error e is one the directive d can have contributed: its kind fits the
\* kind of d and its span is the span that kind is reported on
Owns(d, e) ==
    IF d.kind = "SectionHeader"
    THEN e.kind = "InvalidIdent" /\ e.span = d.obj_name
    ELSE IF d.kind = "Kvp"
    THEN \/ e.kind \in {"InvalidIdent", "SlashSlashComent"} /\ e.span = d.ident
         \/ /\ e.kind \in {"BadValue", "Custom"}
            /\ d.value[1] <= e.span[1]
            /\ e.span[2] = d.value[2]
    ELSE \/ e.kind \in {"SlashSlashComent", "MalformedHeader", "Other"} /\ e.span = d.span
         \/ e.kind = "SpaceAfterMultiline" /\ e.span[2] = d.span[2]

\* the directives that can have contributed errs[k]
OwnersOf(k) == {i \in DirIdx : Owns(directives[i], errs[k])}

\* the kinds of the errors of directive i, in the order of the list
KindsFrom(i) ==
    LET own == SelectSeq(errs, LAMBDA e : Owns(directives[i], e))
    IN [k \in 1..Len(own) |-> own[k].kind]

\* the kind sequences a directive of each sort may contribute
HeaderContributions == {<<>>, <<"InvalidIdent">>}

KvpContributions ==
    {a \o b : a \in {<<>>, <<"InvalidIdent">>, <<"SlashSlashComent">>},
              b \in {<<>>, <<"BadValue">>, <<"Custom">>}}

UnknownContributions ==
    {a \o b : a \in {<<"SlashSlashComent">>, <<"MalformedHeader">>, <<"Other">>},
              b \in {<<>>, <<"SpaceAfterMultiline">>}}

\* C29: every error belongs to one directive, the errors of the directives
\* follow one another in directive order, and each directive contributes a
\* bounded sequence: a SectionHeader at most one error, a Kvp at most one
\* identifier error then at most one value error, an Unknown that is no
\* `;` comment exactly one of SlashSlashComment, MalformedHeader and Other,
\* then at most one SpaceAfterMultiline.
C29_ContributionsInOrder ==
    Validated =>
        /\ \A k \in 1..Len(errs) : Cardinality(OwnersOf(k)) = 1
        /\ \A k \in 1..(Len(errs) - 1) :
               \A i \in OwnersOf(k) : \A j \in OwnersOf(k + 1) : i <= j
        /\ \A i \in DirIdx :
               \A ks \in {KindsFrom(i)} :
                   CASE directives[i].kind = "SectionHeader" -> ks \in HeaderContributions
                     [] directives[i].kind = "Kvp" -> ks \in KvpContributions
                     [] OTHER ->
                          IF SemicolonIdent(Slice(text, directives[i].span)) THEN ks = <<>>
                          ELSE ks \in UnknownContributions

\* a Kvp with two errors and then an Unknown with two errors
C29_Witness ==
    /\ Validated
    /\ text = <<"=", "\\", "\\", " ", "\n", "a">>
    /\ Len(directives) = 2
    /\ Len(errs) = 4
    /\ KindsFrom(1) = <<"InvalidIdent", "BadValue">>
    /\ KindsFrom(2) = <<"Other", "SpaceAfterMultiline">>

----------------------------------------------------------------------------
(* Continuation lines. *)

\* the directive d starts on the line with span sp
StartsOn(d, sp) == sp[1] <= d.span[1] /\ d.span[1] <= sp[2]

\* line j of L continues the directive that starts on line k: every line from
\* k up to the one before j ends with two backslashes
ContinuesFrom(L, k, j) ==
    k < j /\ \A m \in k..(j - 1) : EndsWithBackslashes(Slice(text, L[m]))

\* offset of the first byte after offset e that is no line terminator, or the
\* length of the text when only terminators follow
NextLineStart(e) ==
    Min({p \in e..(Len(text) - 1) : ~IsTerminator(p)} \cup {Len(text)})

\* offset just past the run of non-terminator bytes that starts at offset p
NextLineEnd(p) ==
    Min({q \in p..(Len(text) - 1) : IsTerminator(q)} \cup {Len(text)})

\* C30: a line that continues a Kvp yields no directive of its own whatever
\* it looks like, and lies inside the value of that Kvp; and a Kvp whose first
\* line ends with two backslashes extends over the next non-empty line of the
\* text, however many line terminators stand in between.
C30_ContinuationAbsorbed ==
    Parsed =>
        \A L \in {Lines} : \A i \in Kvps : \A k \in 1..Len(L) :
            StartsOn(directives[i], L[k]) =>
                /\ \A j \in (k + 1)..Len(L) :
                       ContinuesFrom(L, k, j) =>
                           /\ L[j][2] <= directives[i].value[2]
                           /\ \A n \in DirIdx : ~StartsOn(directives[n], L[j])
                /\ EndsWithBackslashes(Slice(text, L[k])) =>
                       \A p \in {NextLineStart(L[k][2])} :
                           p < Len(text) => NextLineEnd(p) <= directives[i].value[2]

\* a header-shaped line is absorbed
C30_Witness ==
    /\ Parsed
    /\ text = <<"=", "\\", "\\", "\n", "[", "]">>
    /\ Len(directives) = 1
    /\ directives[1].kind = "Kvp"
    /\ directives[1].value = <<1, 6>>

\* a line with `=` is absorbed across an empty line
C30_WitnessEmptyLines ==
    /\ Parsed
    /\ text = <<"=", "\\", "\\", "\n", "\n", "=">>
    /\ Len(directives) = 1
    /\ directives[1].kind = "Kvp"
    /\ directives[1].value = <<1, 6>>

====
